---- MODULE Spec2Model ----
(***************************************************************************)
(* One game room of src/server.js, of any of the four kinds (Bingo, Croc,  *)
(* Memory, Gomoku), with the requests that act on it.  A handler that      *)
(* awaits readJsonBody is two steps: the checks before the await park the  *)
(* request in `inflight`, and a later step resumes it with the body.       *)
(* Timers (Bingo bot, Memory mismatch) and stream closes are steps too.    *)
(***************************************************************************)
EXTENDS Integers, Sequences, FiniteSets, Bags, TLC

VARIABLES room, registered, inflight

vars == <<room, registered, inflight>>

(* ------------------------------ bounds -------------------------------- *)

\* Number of authenticated users that act on a Croc room, a Memory room, a
\* Gomoku room (of capacity 2) and a Bingo room.
NumCrocUsers == 3

\* Number of users that play whole games of Croc.
NumLongGameUsers == 2

NumMemoryUsers == 2

NumGomokuUsers == 2

NumBingoUsers == 2

\* A Gomoku move request names the first empty cell among the first MoveCols
\* cells of row 0 or among the first MoveCols - 1 cells of row 1.
MoveCols == 5

\* The empty cells of a late Gomoku position a run starts from, at most.
MaxHoles == 3

\* Requests suspended in readJsonBody at the same time: on a Memory room,
\* and on a room of another kind.
MaxMemoryInflight == 3

MaxInflight == 2

\* Users of the presence specification.
NumPresenceUsers == 2

\* A Bingo draw names one of this many lowest numbers not yet called.
DrawWindow == 1

\* Event streams open at the same time.
MaxStreams == 2

\* the number of snapshots kept of what was written to a stream
MaxWritten == 2

\* requests parked at once, and pairs matched, where streams are followed
MaxStreamedInflight == 1

MaxStreamedPairs == 1

\* Largest tooth number a pick request carries (besides the invalid ones).
MaxToothInput == 2

\* Largest value crypto.randomInt returns for trapTooth.
MaxTrapTooth == 3

\* A Memory pick request names one of this many lowest unmatched cards.
MemoryWindow == 3

\* the identities the properties apply the handlers to
NumCallers == 5

\* the identities that fill a room to its capacity
NumCapacityUsers == 9

\* the identities of a Memory game in which a third player leaves
NumMismatchUsers == 3

(* ----------------------------- constants ------------------------------ *)

Range(s) == {s[i] : i \in 1..Len(s)}

AllUsers == <<"u1", "u2", "u3", "u4", "u5", "u6", "u7", "u8", "u9">>

\* the first n user identities
FirstUsers(n) == {AllUsers[i] : i \in 1..(IF n < Len(AllUsers) THEN n ELSE Len(AllUsers))}

Users == Range(AllUsers)

CrocUsers == FirstUsers(NumCrocUsers)

MemoryUsers == FirstUsers(NumMemoryUsers)

GomokuUsers == FirstUsers(NumGomokuUsers)

BingoUsers == FirstUsers(NumBingoUsers)

\* the identities a property applies the handlers to
Callers == FirstUsers(NumCallers)

\* null of a userId-valued field
Null == "null"

\* null of a number-valued field (lastPickedTooth, trapTooth, lastNumber, ...)
NoNumber == 0

MinToothCountPerJaw == 8

MaxToothCountPerJaw == 20

CrocInitialToothCountPerJaw == 20

MEMORY_CARD_COUNTS == {20, 30, 40, 50, 60}

MinMemoryCardCount == 20

MemoryCapacity == 8

GOMOKU_SIZE == 15

GomokuCapacity == 2

\* the value of turnCursor after `% 0`
NaN == -1

BINGO_BOT_USER_ID == "__bingo_bot__"

MinBingoSize == 5

MaxBingoSize == 10

TargetLines == 5

InitialDrawTimeoutSeconds == 10

DRAW_TIMEOUT_SECONDS == {3, 5, 7, 10, 15, 20}

BingoCapacity == 8

(* ------------------------------ helpers ------------------------------- *)

\* Array.prototype.filter((id) => id !== u), Map.prototype.delete(u)
Without(s, u) == SelectSeq(s, LAMBDA x : x # u)

\* Array.prototype.indexOf, 0-based, -1 when absent
IndexOf(s, u) ==
  IF u \in Range(s) THEN (CHOOSE i \in 1..Len(s) : s[i] = u /\ \A j \in 1..(i - 1) : s[j] # u) - 1
  ELSE -1

\* room.players.values().next().value
FirstOf(s) == IF Len(s) > 0 THEN s[1] ELSE Null

RECURSIVE SumOver(_, _)
SumOver(f, S) ==
  IF S = {} THEN 0
  ELSE LET x == CHOOSE y \in S : TRUE IN f[x] + SumOver(f, S \ {x})

NoRoom == [kind |-> "none"]

Exists == room # NoRoom

Request(op, u) == [op |-> op, user |-> u, stone |-> "na"]

OpenStreams == IF Exists THEN Len(room.subscribers) ELSE 0

\* What a handler leaves behind: the room, and the error of its response
\* ("none" for {ok: true}).
Out(r, err) == [room |-> r, error |-> err]

\* A handler that answers {ok: false, error} before it has touched the room.
Reply(op, u, err) == UNCHANGED <<room, registered, inflight>>

\* A handler that reaches `await readJsonBody(req)`.
Park(req) ==
  /\ BagCardinality(inflight) < (IF room.kind = "memory" THEN MaxMemoryInflight ELSE MaxInflight)
  /\ inflight' = inflight (+) SetToBag({req})
  /\ UNCHANGED <<room, registered>>

Init ==
  /\ room = NoRoom
  /\ registered = FALSE
  /\ inflight = EmptyBag

(* --------------------------- public state ----------------------------- *)

\* roomPublicState: the snapshot of a Bingo room a state event carries
roomPublicState(r) ==
  [size |-> r.size,
   targetLines |-> r.targetLines,
   botEnabled |-> r.botEnabled,
   status |-> r.status,
   hostUserId |-> r.hostUserId,
   players |-> [i \in DOMAIN r.players |->
                  [userId |-> r.players[i],
                   online |-> r.players[i] \in r.online,
                   isBot |-> r.players[i] = BINGO_BOT_USER_ID]],
   calledNumbers |-> r.calledNumbers,
   lastNumber |-> r.lastNumber,
   winners |-> r.winners,
   drawTimeoutSeconds |-> r.drawTimeoutSeconds,
   turnUserId |-> r.turnUserId,
   turnEndsAt |-> r.turnEndsAt,
   lastDrawByUserId |-> r.lastDrawByUserId,
   lastDrawReason |-> r.lastDrawReason]

\* crocRoomPublicState handing out the trap
crocRoomPublicState_showsTrap(r) ==
  [status |-> r.status,
   hostUserId |-> r.hostUserId,
   players |-> [i \in DOMAIN r.players |->
                  [userId |-> r.players[i],
                   online |-> r.players[i] \in r.online,
                   alive |-> r.players[i] \in r.alive]],
   selectedTeeth |-> r.selectedTeeth,
   toothCountPerJaw |-> r.toothCountPerJaw,
   trapTooth |-> r.trapTooth,
   turnUserId |-> r.turnUserId,
   lastPickedTooth |-> r.lastPickedTooth,
   lastPickerUserId |-> r.lastPickerUserId,
   loserUserId |-> r.loserUserId,
   winnerUserId |-> r.winnerUserId]

crocRoomPublicState(r) ==
  [status |-> r.status,
   hostUserId |-> r.hostUserId,
   players |-> [i \in DOMAIN r.players |->
                  [userId |-> r.players[i],
                   online |-> r.players[i] \in r.online,
                   alive |-> r.players[i] \in r.alive]],
   selectedTeeth |-> r.selectedTeeth,
   toothCountPerJaw |-> r.toothCountPerJaw,
   turnUserId |-> r.turnUserId,
   lastPickedTooth |-> r.lastPickedTooth,
   lastPickerUserId |-> r.lastPickerUserId,
   loserUserId |-> r.loserUserId,
   winnerUserId |-> r.winnerUserId]

\* memoryRoomPublicState handing out the flag of every card
memoryRoomPublicState_showsAll(r) ==
  [status |-> r.status,
   hostUserId |-> r.hostUserId,
   cardCount |-> r.cardCount,
   pairsMatched |-> r.matchedCount,
   players |-> [i \in DOMAIN r.players |->
                  [userId |-> r.players[i],
                   online |-> r.players[i] \in r.online,
                   score |-> r.score[r.players[i]]]],
   turnUserId |-> r.turnUserId,
   resolving |-> r.resolving,
   revealedIndices |-> r.revealedIndices,
   winners |-> r.winners,
   cards |-> [i \in DOMAIN r.cards |->
                LET visible == (i - 1) \in r.matched \/ (i - 1) \in Range(r.revealedIndices)
                IN  [matched |-> (i - 1) \in r.matched,
                     visible |-> visible,
                     flag |-> r.cards[i]]]]

\* memoryRoomPublicState: a card shows its flag only while it is matched or
\* revealed; NoNumber stands for the null flag of a hidden card
memoryRoomPublicState(r) ==
  [status |-> r.status,
   hostUserId |-> r.hostUserId,
   cardCount |-> r.cardCount,
   pairsMatched |-> r.matchedCount,
   players |-> [i \in DOMAIN r.players |->
                  [userId |-> r.players[i],
                   online |-> r.players[i] \in r.online,
                   score |-> r.score[r.players[i]]]],
   turnUserId |-> r.turnUserId,
   resolving |-> r.resolving,
   revealedIndices |-> r.revealedIndices,
   winners |-> r.winners,
   cards |-> [i \in DOMAIN r.cards |->
                LET visible == (i - 1) \in r.matched \/ (i - 1) \in Range(r.revealedIndices)
                IN  [matched |-> (i - 1) \in r.matched,
                     visible |-> visible,
                     flag |-> IF visible THEN r.cards[i] ELSE NoNumber]]]

gomokuRoomPublicState(r) ==
  [status |-> r.status,
   hostUserId |-> r.hostUserId,
   boardSize |-> r.boardSize,
   board |-> r.board,
   turnUserId |-> r.turnUserId,
   winnerUserId |-> r.winnerUserId,
   winnerStone |-> r.winnerStone,
   draw |-> r.draw,
   lastMoveIndex |-> r.lastMoveIndex,
   lastMoveByUserId |-> r.lastMoveByUserId,
   players |-> [i \in DOMAIN r.players |->
                  [userId |-> r.players[i],
                   online |-> r.players[i] \in r.online,
                   stone |-> r.stone[r.players[i]]]]]

PublicState(r) ==
  CASE r.kind = "bingo" -> roomPublicState(r)
    [] r.kind = "croc" -> crocRoomPublicState(r)
    [] r.kind = "memory" -> memoryRoomPublicState(r)
    [] r.kind = "gomoku" -> gomokuRoomPublicState(r)

(* --------------------------- event streams ---------------------------- *)

\* A subscriber {res, userId} of room.subscribers.  Of the stream res it
\* holds the state snapshots written to it, the most recent MaxWritten of
\* them, how many were written (counted up to MaxWritten + 1), and whether
\* the server has ended it.
NewSub(u) == [userId |-> u, res |-> <<>>, written |-> 0, ended |-> FALSE]

LastWritten(log) ==
  IF Len(log) <= MaxWritten THEN log ELSE SubSeq(log, Len(log) - MaxWritten + 1, Len(log))

\* sseWrite(sub.res, "state", data); a write to an ended stream is dropped
sseWrite(sub, data) ==
  IF sub.ended THEN sub
  ELSE [sub EXCEPT !.res = LastWritten(Append(@, data)),
                   !.written = IF @ > MaxWritten THEN @ ELSE @ + 1]

\* a broadcast that passes over the subscriber attached first
broadcastRoom_skipsFirst(r) ==
  [r EXCEPT !.subscribers =
     [i \in DOMAIN @ |-> IF i = 1 THEN @[i] ELSE sseWrite(@[i], PublicState(r))]]

\* broadcastRoom and its three siblings, called with "state" and the public
\* state of the room
broadcastRoom(r) ==
  [r EXCEPT !.subscribers = [i \in DOMAIN @ |-> sseWrite(@[i], PublicState(r))]]

\* a handler's last steps when it answers {ok: true}: the broadcast of the
\* room's state, then the response
Ok(r) == Out(broadcastRoom(r), "none")

\* for (const sub of room.subscribers) sub.res.end()
endStreams(r) == [r EXCEPT !.subscribers = [i \in DOMAIN @ |-> [@[i] EXCEPT !.ended = TRUE]]]

\* GET /sse/<game>/:code: the stream is attached, the snapshot is written to
\* it, and the presence change is broadcast.
subscribe(r, u) ==
  LET r1 == [r EXCEPT !.subscribers = Append(@, NewSub(u)),
                      !.connections[u] = @ + 1,
                      !.online = @ \cup {u}]
      r2 == [r1 EXCEPT !.subscribers[Len(r1.subscribers)] = sseWrite(@, PublicState(r1))]
  IN  broadcastRoom(r2)

Subscribe(u) ==
  /\ Exists
  /\ IF ~registered THEN Reply("subscribe", u, "room_not_found")
     ELSE IF u \notin Range(room.players) THEN Reply("subscribe", u, "not_in_room")
     ELSE /\ OpenStreams < MaxStreams
          /\ room' = subscribe(room, u)
          /\ UNCHANGED <<registered, inflight>>

\* req.on("close") of the event stream room.subscribers[i]
closeStream(r, i) ==
  LET u == r.subscribers[i].userId
      prev == r.connections[u]
      next == IF prev - 1 > 0 THEN prev - 1 ELSE 0
      r1 == [r EXCEPT !.subscribers = SubSeq(@, 1, i - 1) \o SubSeq(@, i + 1, Len(@)),
                      !.connections[u] = next]
  IN  IF next = 0 THEN broadcastRoom([r1 EXCEPT !.online = @ \ {u}]) ELSE r1

CloseStream(u) ==
  /\ Exists
  /\ \E i \in DOMAIN room.subscribers :
       /\ room.subscribers[i].userId = u
       /\ room' = closeStream(room, i)
  /\ UNCHANGED <<registered, inflight>>

(* -------------------------------- Croc -------------------------------- *)

crocSetTurnByCursor(r) ==
  IF Len(r.turnOrder) = 0 THEN [r EXCEPT !.turnUserId = Null]
  ELSE LET n == Len(r.turnOrder)
           c == ((r.turnCursor % n) + n) % n
       IN  [r EXCEPT !.turnCursor = c, !.turnUserId = r.turnOrder[c + 1]]

crocNewRoom(u) ==
  [kind |-> "croc",
   status |-> "lobby",
   hostUserId |-> u,
   players |-> <<u>>,
   online |-> {u},
   alive |-> {u},
   selectedTeeth |-> {},
   toothCountPerJaw |-> CrocInitialToothCountPerJaw,
   trapTooth |-> NoNumber,
   turnOrder |-> <<>>,
   turnCursor |-> 0,
   turnUserId |-> Null,
   lastPickedTooth |-> NoNumber,
   lastPickerUserId |-> Null,
   loserUserId |-> Null,
   winnerUserId |-> Null,
   subscribers |-> <<>>,
   connections |-> [x \in Users |-> 0]]

CrocCreate(u) ==
  /\ room = NoRoom
  /\ room' = crocNewRoom(u)
  /\ registered' = TRUE
  /\ UNCHANGED inflight

crocJoin(r, u) ==
  broadcastRoom(
    IF u \notin Range(r.players)
    THEN [r EXCEPT !.players = Append(@, u), !.online = @ \cup {u}, !.alive = @ \cup {u}]
    ELSE [r EXCEPT !.online = @ \cup {u}])

CrocJoin(u) ==
  /\ Exists /\ room.kind = "croc"
  /\ IF ~registered THEN Reply("join", u, "room_not_found")
     ELSE IF room.status # "lobby" /\ u \notin Range(room.players)
     THEN Reply("join", u, "room_not_joinable")
     ELSE /\ room' = crocJoin(room, u)
          /\ UNCHANGED <<registered, inflight>>

\* crocLeave leaving hostUserId as it is when the host leaves
crocLeave_keepsHost(r, u) ==
  LET leavingWasTurn == r.turnUserId = u
      r1 == [r EXCEPT !.players = Without(@, u),
                      !.online = @ \ {u},
                      !.alive = @ \ {u},
                      !.connections[u] = 0,
                      !.turnOrder = Without(@, u)]
      r2 == r1
  IN  broadcastRoom(
        IF r2.status = "playing" /\ leavingWasTurn /\ Len(r2.turnOrder) > 0
        THEN crocSetTurnByCursor(
               IF r2.turnCursor >= Len(r2.turnOrder) THEN [r2 EXCEPT !.turnCursor = 0] ELSE r2)
        ELSE IF r2.status = "playing" /\ Len(r2.turnOrder) = 0
        THEN [r2 EXCEPT !.status = "ended", !.turnUserId = Null]
        ELSE r2)

crocLeave(r, u) ==
  LET leavingWasTurn == r.turnUserId = u
      r1 == [r EXCEPT !.players = Without(@, u),
                      !.online = @ \ {u},
                      !.alive = @ \ {u},
                      !.connections[u] = 0,
                      !.turnOrder = Without(@, u)]
      r2 == IF r1.hostUserId = u THEN [r1 EXCEPT !.hostUserId = FirstOf(r1.players)] ELSE r1
  IN  broadcastRoom(
        IF r2.status = "playing" /\ leavingWasTurn /\ Len(r2.turnOrder) > 0
        THEN crocSetTurnByCursor(
               IF r2.turnCursor >= Len(r2.turnOrder) THEN [r2 EXCEPT !.turnCursor = 0] ELSE r2)
        ELSE IF r2.status = "playing" /\ Len(r2.turnOrder) = 0
        THEN [r2 EXCEPT !.status = "ended", !.turnUserId = Null]
        ELSE r2)

\* pruneCrocRoomIfEmpty: the room it leaves, and whether it stays in crocRooms
pruneCrocRoomIfEmpty(r) ==
  IF Len(r.players) > 0 THEN [room |-> r, registered |-> TRUE]
  ELSE [room |-> endStreams(r), registered |-> FALSE]

CrocLeave(u) ==
  /\ Exists /\ room.kind = "croc"
  /\ IF ~registered THEN Reply("leave", u, "room_not_found")
     ELSE LET pruned == pruneCrocRoomIfEmpty(crocLeave(room, u))
          IN  /\ room' = pruned.room
              /\ registered' = pruned.registered
              /\ UNCHANGED inflight

\* POST /api/croc/rooms/:code/start up to `await readJsonBody(req)`
CrocStartRequest(u) ==
  /\ Exists /\ room.kind = "croc"
  /\ IF ~registered THEN Reply("start", u, "room_not_found")
     ELSE IF room.hostUserId # u THEN Reply("start", u, "host_only")
     ELSE IF Len(room.players) < 2 THEN Reply("start", u, "need_two_players")
     ELSE Park(Request("start", u))

\* the rest of the start handler, after the body has arrived; trapTooth is
\* the value crypto.randomInt returns
\* crocStart keeping the teeth picked in the game before
crocStart_keepsSelectedTeeth(r, toothCountPerJaw, trapTooth) ==
  IF toothCountPerJaw < MinToothCountPerJaw \/ toothCountPerJaw > MaxToothCountPerJaw
  THEN Out(r, "invalid_tooth_count_per_jaw")
  ELSE Ok(crocSetTurnByCursor(
             [r EXCEPT !.status = "playing",
                       !.toothCountPerJaw = toothCountPerJaw,
                       !.trapTooth = trapTooth,
                       !.loserUserId = Null,
                       !.winnerUserId = Null,
                       !.alive = Range(r.players),
                       !.turnOrder = r.players,
                       !.turnCursor = 0,
                       !.lastPickedTooth = NoNumber,
                       !.lastPickerUserId = Null]))

crocStart(r, toothCountPerJaw, trapTooth) ==
  IF toothCountPerJaw < MinToothCountPerJaw \/ toothCountPerJaw > MaxToothCountPerJaw
  THEN Out(r, "invalid_tooth_count_per_jaw")
  ELSE Ok(crocSetTurnByCursor(
             [r EXCEPT !.status = "playing",
                       !.toothCountPerJaw = toothCountPerJaw,
                       !.selectedTeeth = {},
                       !.trapTooth = trapTooth,
                       !.loserUserId = Null,
                       !.winnerUserId = Null,
                       !.alive = Range(r.players),
                       !.turnOrder = r.players,
                       !.turnCursor = 0,
                       !.lastPickedTooth = NoNumber,
                       !.lastPickerUserId = Null]))

ToothCountInputs == {MinToothCountPerJaw - 1, MinToothCountPerJaw, MinToothCountPerJaw + 1}

\* crypto.randomInt(1, toothCountPerJaw * 2 + 1)
TrapTeeth(toothCountPerJaw) == {t \in 1..(toothCountPerJaw * 2) : t <= MaxTrapTooth}

CrocStartResume(u) ==
  /\ Exists /\ room.kind = "croc"
  /\ BagIn(Request("start", u), inflight)
  /\ inflight' = inflight (-) SetToBag({Request("start", u)})
  /\ UNCHANGED registered
  /\ \E tc \in ToothCountInputs : \E trap \in TrapTeeth(tc) :
       room' = crocStart(room, tc, trap).room

\* POST /api/croc/rooms/:code/pick up to `await readJsonBody(req)`
CrocPickRequest(u) ==
  /\ Exists /\ room.kind = "croc"
  /\ IF ~registered THEN Reply("pick", u, "room_not_found")
     ELSE IF room.status # "playing" THEN Reply("pick", u, "not_playing")
     ELSE IF room.turnUserId # u THEN Reply("pick", u, "not_your_turn")
     ELSE Park(Request("pick", u))

\* crocPick treating the trap as any other tooth
crocPick_missesTrap(r, u, tooth) ==
  IF tooth < 1 \/ tooth > r.toothCountPerJaw * 2 THEN Out(r, "invalid_tooth")
  ELSE IF tooth \in r.selectedTeeth THEN Out(r, "already_selected")
  ELSE
    LET r1 == [r EXCEPT !.selectedTeeth = @ \cup {tooth},
                        !.lastPickedTooth = tooth,
                        !.lastPickerUserId = u]
    IN  IF Len(r1.turnOrder) > 0
        THEN Ok(crocSetTurnByCursor(
                   [r1 EXCEPT !.turnCursor = (r1.turnCursor + 1) % Len(r1.turnOrder)]))
        ELSE Ok([r1 EXCEPT !.turnUserId = Null])

\* the rest of the pick handler, after the body has arrived
crocPick(r, u, tooth) ==
  IF tooth < 1 \/ tooth > r.toothCountPerJaw * 2 THEN Out(r, "invalid_tooth")
  ELSE IF tooth \in r.selectedTeeth THEN Out(r, "already_selected")
  ELSE
    LET r1 == [r EXCEPT !.selectedTeeth = @ \cup {tooth},
                        !.lastPickedTooth = tooth,
                        !.lastPickerUserId = u]
        winner == FirstOf(Without(r1.players, u))
    IN  IF tooth = r1.trapTooth
        THEN Ok([r1 EXCEPT !.status = "ended",
                            !.turnUserId = Null,
                            !.alive = @ \ {u},
                            !.loserUserId = u,
                            !.winnerUserId = winner])
        ELSE IF Len(r1.turnOrder) > 0
        THEN Ok(crocSetTurnByCursor(
                   [r1 EXCEPT !.turnCursor = (r1.turnCursor + 1) % Len(r1.turnOrder)]))
        ELSE Ok([r1 EXCEPT !.turnUserId = Null])

ToothInputs == (0..MaxToothInput) \cup {MinToothCountPerJaw * 2 + 1}

CrocPickResume(u) ==
  /\ Exists /\ room.kind = "croc"
  /\ BagIn(Request("pick", u), inflight)
  /\ inflight' = inflight (-) SetToBag({Request("pick", u)})
  /\ UNCHANGED registered
  /\ \E tooth \in ToothInputs : room' = crocPick(room, u, tooth).room

NextCroc ==
  \E u \in CrocUsers :
    \/ CrocCreate(u)
    \/ CrocJoin(u)
    \/ CrocLeave(u)
    \/ CrocStartRequest(u)
    \/ CrocStartResume(u)
    \/ CrocPickRequest(u)
    \/ CrocPickResume(u)

SpecCroc == Init /\ [][NextCroc]_vars

\* Whole games of Croc: the jaw has the fewest teeth, the trap is any tooth,
\* and every pick request carries the lowest tooth not yet selected, or a
\* tooth already selected.
LongGameUsers == FirstUsers(NumLongGameUsers)

CrocStartResumeAnyTrap(u) ==
  /\ Exists /\ room.kind = "croc"
  /\ BagIn(Request("start", u), inflight)
  /\ inflight' = inflight (-) SetToBag({Request("start", u)})
  /\ UNCHANGED registered
  /\ \E trap \in 1..(MinToothCountPerJaw * 2) :
       room' = crocStart(room, MinToothCountPerJaw, trap).room

LowestTeeth(r) ==
  LET left == (1..(r.toothCountPerJaw * 2)) \ r.selectedTeeth
  IN  {t \in left : \A x \in left : t <= x} \cup {t \in r.selectedTeeth : t = 1}

CrocPickResumeLowest(u) ==
  /\ Exists /\ room.kind = "croc"
  /\ BagIn(Request("pick", u), inflight)
  /\ inflight' = inflight (-) SetToBag({Request("pick", u)})
  /\ UNCHANGED registered
  /\ \E tooth \in LowestTeeth(room) : room' = crocPick(room, u, tooth).room

NextLongGame ==
  \E u \in LongGameUsers :
    \/ CrocCreate(u)
    \/ CrocJoin(u)
    \/ CrocLeave(u)
    \/ CrocStartRequest(u)
    \/ CrocStartResumeAnyTrap(u)
    \/ CrocPickRequest(u)
    \/ CrocPickResumeLowest(u)

SpecLongGame == Init /\ [][NextLongGame]_vars

(* ------------------------------- Memory ------------------------------- *)

memorySetTurnByCursor(r) ==
  IF Len(r.turnOrder) = 0 THEN [r EXCEPT !.turnUserId = Null]
  ELSE LET n == Len(r.turnOrder)
           c == ((r.turnCursor % n) + n) % n
       IN  [r EXCEPT !.turnCursor = c, !.turnUserId = r.turnOrder[c + 1]]

clampMemoryCardCount(cardCount) == cardCount \in MEMORY_CARD_COUNTS

\* buildMemoryDeck: the countryKey of each card, for two of the orders the
\* shuffle can produce: pairs side by side, and the same with the first two
\* pairs interleaved
DeckAdjacent(cardCount) == [i \in 1..cardCount |-> (i + 1) \div 2]

DeckInterleaved(cardCount) ==
  [i \in 1..cardCount |-> IF i = 2 THEN 2 ELSE IF i = 3 THEN 1 ELSE (i + 1) \div 2]

buildMemoryDeck(cardCount) == {DeckAdjacent(cardCount), DeckInterleaved(cardCount)}

memoryNewRoom(u, cardCount) ==
  [kind |-> "memory",
   status |-> "lobby",
   hostUserId |-> u,
   cardCount |-> cardCount,
   matchedCount |-> 0,
   cards |-> <<>>,
   matched |-> {},
   revealedIndices |-> <<>>,
   resolving |-> FALSE,
   resolveTimer |-> FALSE,
   turnOrder |-> <<>>,
   turnCursor |-> 0,
   turnUserId |-> Null,
   winners |-> <<>>,
   players |-> <<u>>,
   online |-> {u},
   score |-> [x \in Users |-> 0],
   subscribers |-> <<>>,
   connections |-> [x \in Users |-> 0]]

CardCountInputs == {MinMemoryCardCount, MinMemoryCardCount + 1}

MemoryCreate(u) ==
  /\ room = NoRoom
  /\ \E cardCount \in CardCountInputs :
       IF ~clampMemoryCardCount(cardCount) THEN UNCHANGED <<room, registered>>
       ELSE /\ room' = memoryNewRoom(u, cardCount)
            /\ registered' = TRUE
  /\ UNCHANGED inflight

memoryJoin(r, u) ==
  IF u \notin Range(r.players)
  THEN IF r.status # "lobby" THEN Out(r, "room_not_joinable")
       ELSE IF Len(r.players) >= MemoryCapacity THEN Out(r, "room_full")
       ELSE Ok([r EXCEPT !.players = Append(@, u), !.online = @ \cup {u}, !.score[u] = 0])
  ELSE Ok([r EXCEPT !.online = @ \cup {u}])

MemoryJoin(u) ==
  /\ Exists /\ room.kind = "memory"
  /\ IF ~registered THEN Reply("join", u, "room_not_found")
     ELSE /\ room' = memoryJoin(room, u).room
          /\ UNCHANGED <<registered, inflight>>

\* memoryLeave clearing the timer of a mismatch and leaving resolving set
memoryLeave_keepsResolving(r, u) ==
  LET leavingWasTurn == r.turnUserId = u
      r1 == [r EXCEPT !.players = Without(@, u),
                      !.online = @ \ {u},
                      !.score[u] = 0,
                      !.connections[u] = 0,
                      !.turnOrder = Without(@, u)]
      r2 == IF r1.hostUserId = u THEN [r1 EXCEPT !.hostUserId = FirstOf(r1.players)] ELSE r1
      r3 == [r2 EXCEPT !.resolveTimer = FALSE, !.revealedIndices = <<>>]
  IN  broadcastRoom(
        IF r3.status # "playing" THEN r3
        ELSE IF Len(r3.turnOrder) = 0
        THEN [r3 EXCEPT !.status = "ended", !.turnUserId = Null, !.winners = <<>>]
        ELSE IF leavingWasTurn \/ r3.turnUserId \notin Range(r3.turnOrder)
        THEN memorySetTurnByCursor(
               IF r3.turnCursor >= Len(r3.turnOrder) THEN [r3 EXCEPT !.turnCursor = 0] ELSE r3)
        ELSE [r3 EXCEPT !.turnCursor =
                IF IndexOf(r3.turnOrder, r3.turnUserId) > 0
                THEN IndexOf(r3.turnOrder, r3.turnUserId) ELSE 0])

memoryLeave(r, u) ==
  LET leavingWasTurn == r.turnUserId = u
      r1 == [r EXCEPT !.players = Without(@, u),
                      !.online = @ \ {u},
                      !.score[u] = 0,
                      !.connections[u] = 0,
                      !.turnOrder = Without(@, u)]
      r2 == IF r1.hostUserId = u THEN [r1 EXCEPT !.hostUserId = FirstOf(r1.players)] ELSE r1
      r3 == [r2 EXCEPT !.resolveTimer = FALSE, !.revealedIndices = <<>>, !.resolving = FALSE]
  IN  broadcastRoom(
        IF r3.status # "playing" THEN r3
        ELSE IF Len(r3.turnOrder) = 0
        THEN [r3 EXCEPT !.status = "ended", !.turnUserId = Null, !.winners = <<>>]
        ELSE IF leavingWasTurn \/ r3.turnUserId \notin Range(r3.turnOrder)
        THEN memorySetTurnByCursor(
               IF r3.turnCursor >= Len(r3.turnOrder) THEN [r3 EXCEPT !.turnCursor = 0] ELSE r3)
        ELSE [r3 EXCEPT !.turnCursor =
                IF IndexOf(r3.turnOrder, r3.turnUserId) > 0
                THEN IndexOf(r3.turnOrder, r3.turnUserId) ELSE 0])

\* pruneMemoryRoomIfEmpty: the room it leaves, and whether it stays in memoryRooms
pruneMemoryRoomIfEmpty(r) ==
  IF Len(r.players) > 0 THEN [room |-> r, registered |-> TRUE]
  ELSE [room |-> endStreams([r EXCEPT !.resolveTimer = FALSE]), registered |-> FALSE]

MemoryLeave(u) ==
  /\ Exists /\ room.kind = "memory"
  /\ IF ~registered THEN Reply("leave", u, "room_not_found")
     ELSE LET pruned == pruneMemoryRoomIfEmpty(memoryLeave(room, u))
          IN  /\ room' = pruned.room
              /\ registered' = pruned.registered
              /\ UNCHANGED inflight

\* POST /api/memory/rooms/:code/start up to `await readJsonBody(req)`
MemoryStartRequest(u) ==
  /\ Exists /\ room.kind = "memory"
  /\ IF ~registered THEN Reply("start", u, "room_not_found")
     ELSE IF room.hostUserId # u THEN Reply("start", u, "host_only")
     ELSE Park(Request("start", u))

\* the rest of the start handler; deck is what buildMemoryDeck returns
\* memoryStart keeping matchedCount of the game before
memoryStart_keepsMatchedCount(r, cardCount, deck) ==
  IF ~clampMemoryCardCount(cardCount) THEN Out(r, "invalid_card_count")
  ELSE IF Len(r.players) < 1 THEN Out(r, "no_players")
  ELSE Ok(memorySetTurnByCursor(
             [r EXCEPT !.status = "playing",
                       !.cardCount = cardCount,
                       !.cards = deck,
                       !.matched = {},
                       !.revealedIndices = <<>>,
                       !.resolving = FALSE,
                       !.winners = <<>>,
                       !.resolveTimer = FALSE,
                       !.score = [x \in Users |-> 0],
                       !.turnOrder = r.players,
                       !.turnCursor = 0]))

memoryStart(r, cardCount, deck) ==
  IF ~clampMemoryCardCount(cardCount) THEN Out(r, "invalid_card_count")
  ELSE IF Len(r.players) < 1 THEN Out(r, "no_players")
  ELSE Ok(memorySetTurnByCursor(
             [r EXCEPT !.status = "playing",
                       !.cardCount = cardCount,
                       !.cards = deck,
                       !.matched = {},
                       !.matchedCount = 0,
                       !.revealedIndices = <<>>,
                       !.resolving = FALSE,
                       !.winners = <<>>,
                       !.resolveTimer = FALSE,
                       !.score = [x \in Users |-> 0],
                       !.turnOrder = r.players,
                       !.turnCursor = 0]))

MemoryStartResume(u) ==
  /\ Exists /\ room.kind = "memory"
  /\ BagIn(Request("start", u), inflight)
  /\ inflight' = inflight (-) SetToBag({Request("start", u)})
  /\ UNCHANGED registered
  /\ \E cardCount \in CardCountInputs : \E deck \in buildMemoryDeck(cardCount) :
       room' = memoryStart(room, cardCount, deck).room

\* POST /api/memory/rooms/:code/pick up to `await readJsonBody(req)`
MemoryPickRequest(u) ==
  /\ Exists /\ room.kind = "memory"
  /\ IF ~registered THEN Reply("pick", u, "room_not_found")
     ELSE IF room.status # "playing" THEN Reply("pick", u, "not_playing")
     ELSE IF room.turnUserId # u THEN Reply("pick", u, "not_your_turn")
     ELSE IF room.resolving THEN Reply("pick", u, "resolving")
     ELSE Park(Request("pick", u))

\* the players with the highest score, in join order, each with the score
memoryWinners(r) ==
  LET maxScore == IF Len(r.players) = 0 THEN -1
                  ELSE CHOOSE m \in {r.score[x] : x \in Range(r.players)} :
                         \A x \in Range(r.players) : r.score[x] <= m
      best == SelectSeq(r.players, LAMBDA x : r.score[x] = maxScore)
  IN  [i \in 1..Len(best) |-> [userId |-> best[i], score |-> r.score[best[i]]]]

\* memoryFinalizeIfDone: the room it leaves, and what it returns
memoryFinalizeIfDone(r) ==
  IF r.matchedCount * 2 < r.cardCount THEN [room |-> r, done |-> FALSE]
  ELSE [room |-> [r EXCEPT !.status = "ended",
                           !.turnUserId = Null,
                           !.revealedIndices = <<>>,
                           !.resolving = FALSE,
                           !.resolveTimer = FALSE,
                           !.winners = memoryWinners(r)],
        done |-> TRUE]

\* memoryResolveMismatchLater, up to the setTimeout
memoryResolveMismatchLater(r) == [r EXCEPT !.resolving = TRUE, !.resolveTimer = TRUE]

\* the rest of the pick handler; card indices are 0-based as in the source
memoryPick(r, u, index) ==
  IF index < 0 \/ index >= Len(r.cards) THEN Out(r, "invalid_index")
  ELSE IF index \in r.matched THEN Out(r, "already_matched")
  ELSE IF index \in Range(r.revealedIndices) THEN Out(r, "already_revealed")
  ELSE
    LET r1 == [r EXCEPT !.revealedIndices = Append(@, index)]
        a == r1.revealedIndices[1]
        b == r1.revealedIndices[2]
    IN  IF Len(r1.revealedIndices) = 1 THEN Ok(r1)
        ELSE IF r1.cards[a + 1] = r1.cards[b + 1]
        THEN Ok(memoryFinalizeIfDone(
                   [r1 EXCEPT !.matched = @ \cup {a, b},
                              !.matchedCount = @ + 1,
                              !.revealedIndices = <<>>,
                              !.score = IF u \in Range(r1.players)
                                        THEN [@ EXCEPT ![u] = @ + 1] ELSE @]).room)
        ELSE Ok(memoryResolveMismatchLater(r1))

\* the card indices a pick request carries: two that are out of range, the
\* first card, and the lowest MemoryWindow indices of cards not yet matched
IndexInputs(r) ==
  LET open == {i \in 0..(Len(r.cards) - 1) : i \notin r.matched}
  IN  {-1, 0, Len(r.cards)} \cup
      {i \in open : Cardinality({j \in open : j < i}) < MemoryWindow}

MemoryPickResume(u) ==
  /\ Exists /\ room.kind = "memory"
  /\ BagIn(Request("pick", u), inflight)
  /\ inflight' = inflight (-) SetToBag({Request("pick", u)})
  /\ UNCHANGED registered
  /\ \E index \in IndexInputs(room) : room' = memoryPick(room, u, index).room

\* the callback memoryResolveMismatchLater hands to setTimeout
memoryResolveMismatch(r) ==
  LET r1 == [r EXCEPT !.resolveTimer = FALSE]
  IN  IF r1.status # "playing" THEN r1
      ELSE LET r2 == [r1 EXCEPT !.revealedIndices = <<>>, !.resolving = FALSE]
           IN  broadcastRoom(
                 IF Len(r2.turnOrder) > 0
                 THEN memorySetTurnByCursor(
                        [r2 EXCEPT !.turnCursor = (r2.turnCursor + 1) % Len(r2.turnOrder)])
                 ELSE [r2 EXCEPT !.turnUserId = Null])

MemoryResolveTimer ==
  /\ Exists /\ room.kind = "memory"
  /\ room.resolveTimer
  /\ room' = memoryResolveMismatch(room)
  /\ UNCHANGED <<registered, inflight>>

NextMemory ==
  \/ \E u \in MemoryUsers :
       \/ MemoryCreate(u)
       \/ MemoryJoin(u)
       \/ MemoryLeave(u)
       \/ MemoryStartRequest(u)
       \/ MemoryStartResume(u)
       \/ MemoryPickRequest(u)
       \/ MemoryPickResume(u)
  \/ MemoryResolveTimer

SpecMemory == Init /\ [][NextMemory]_vars

(* ------------------------------- Gomoku ------------------------------- *)

gomokuSetTurnByCursor(r) ==
  IF Len(r.turnOrder) = 0 THEN [r EXCEPT !.turnUserId = Null]
  ELSE LET n == Len(r.turnOrder)
           c == ((r.turnCursor % n) + n) % n
       IN  [r EXCEPT !.turnCursor = c, !.turnUserId = r.turnOrder[c + 1]]

\* room.board[i]: the board holds the occupied cells only
Cell(board, i) == IF i \in DOMAIN board THEN board[i] ELSE Null

EmptyBoard == [i \in {} |-> Null]

\* gomokuRun walking on by cell index past the end of a row
RECURSIVE gomokuRun_wraps(_, _, _, _, _, _, _)
gomokuRun_wraps(board, boardSize, r, c, dr, dc, stone) ==
  IF r * boardSize + c >= 0 /\ r * boardSize + c < boardSize * boardSize
     /\ Cell(board, r * boardSize + c) = stone
  THEN 1 + gomokuRun_wraps(board, boardSize, r + dr, c + dc, dr, dc, stone)
  ELSE 0

\* the while loop of gomokuHasFive: the stones of the colour met from (r, c)
\* on, stepping by (dr, dc)
RECURSIVE gomokuRun(_, _, _, _, _, _, _)
gomokuRun(board, boardSize, r, c, dr, dc, stone) ==
  IF r >= 0 /\ r < boardSize /\ c >= 0 /\ c < boardSize
     /\ Cell(board, r * boardSize + c) = stone
  THEN 1 + gomokuRun(board, boardSize, r + dr, c + dc, dr, dc, stone)
  ELSE 0

gomokuHasFive(board, boardSize, index, stone) ==
  LET row == index \div boardSize
      col == index % boardSize
      directions == {<<1, 0>>, <<0, 1>>, <<1, 1>>, <<1, -1>>}
  IN  \E d \in directions :
        1 + gomokuRun(board, boardSize, row - d[1], col - d[2], -d[1], -d[2], stone)
          + gomokuRun(board, boardSize, row + d[1], col + d[2], d[1], d[2], stone) >= 5

gomokuNewRoom(u) ==
  [kind |-> "gomoku",
   status |-> "lobby",
   hostUserId |-> u,
   boardSize |-> GOMOKU_SIZE,
   board |-> EmptyBoard,
   turnOrder |-> <<>>,
   turnCursor |-> 0,
   turnUserId |-> Null,
   winnerUserId |-> Null,
   winnerStone |-> Null,
   draw |-> FALSE,
   lastMoveIndex |-> NaN,
   lastMoveByUserId |-> Null,
   players |-> <<u>>,
   online |-> {u},
   stone |-> [x \in Users |-> IF x = u THEN "B" ELSE Null],
   subscribers |-> <<>>,
   connections |-> [x \in Users |-> 0]]

GomokuCreate(u) ==
  /\ room = NoRoom
  /\ room' = gomokuNewRoom(u)
  /\ registered' = TRUE
  /\ UNCHANGED inflight

gomokuJoin(r, u) ==
  IF u \notin Range(r.players)
  THEN IF r.status # "lobby" THEN Out(r, "room_not_joinable")
       ELSE IF Len(r.players) >= GomokuCapacity THEN Out(r, "room_full")
       ELSE LET usedStones == {r.stone[x] : x \in Range(r.players)}
            IN  Ok([r EXCEPT !.players = Append(@, u),
                              !.online = @ \cup {u},
                              !.stone[u] = IF "B" \in usedStones THEN "W" ELSE "B"])
  ELSE Ok([r EXCEPT !.online = @ \cup {u}])

GomokuJoin(u) ==
  /\ Exists /\ room.kind = "gomoku"
  /\ IF ~registered THEN Reply("join", u, "room_not_found")
     ELSE /\ room' = gomokuJoin(room, u).room
          /\ UNCHANGED <<registered, inflight>>

\* gomokuLeave recording the stone of the player who left as the winner's
gomokuLeave_leaverStone(r, u) ==
  LET leavingWasTurn == r.turnUserId = u
      r1 == [r EXCEPT !.players = Without(@, u),
                      !.online = @ \ {u},
                      !.stone[u] = Null,
                      !.connections[u] = 0,
                      !.turnOrder = Without(@, u)]
      r2 == IF r1.hostUserId = u THEN [r1 EXCEPT !.hostUserId = FirstOf(r1.players)] ELSE r1
      remain == FirstOf(r2.players)
  IN  broadcastRoom(
        IF r2.status # "playing" THEN r2
        ELSE IF Len(r2.players) < 2
        THEN [r2 EXCEPT !.status = "ended",
                        !.turnUserId = Null,
                        !.draw = FALSE,
                        !.winnerUserId = remain,
                        !.winnerStone = r.stone[u]]
        ELSE IF leavingWasTurn \/ r2.turnUserId \notin Range(r2.turnOrder)
        THEN gomokuSetTurnByCursor(
               IF r2.turnCursor >= Len(r2.turnOrder) THEN [r2 EXCEPT !.turnCursor = 0] ELSE r2)
        ELSE [r2 EXCEPT !.turnCursor =
                IF IndexOf(r2.turnOrder, r2.turnUserId) > 0
                THEN IndexOf(r2.turnOrder, r2.turnUserId) ELSE 0])

gomokuLeave(r, u) ==
  LET leavingWasTurn == r.turnUserId = u
      r1 == [r EXCEPT !.players = Without(@, u),
                      !.online = @ \ {u},
                      !.stone[u] = Null,
                      !.connections[u] = 0,
                      !.turnOrder = Without(@, u)]
      r2 == IF r1.hostUserId = u THEN [r1 EXCEPT !.hostUserId = FirstOf(r1.players)] ELSE r1
      remain == FirstOf(r2.players)
  IN  broadcastRoom(
        IF r2.status # "playing" THEN r2
        ELSE IF Len(r2.players) < 2
        THEN [r2 EXCEPT !.status = "ended",
                        !.turnUserId = Null,
                        !.draw = FALSE,
                        !.winnerUserId = remain,
                        !.winnerStone = IF remain = Null THEN Null ELSE r2.stone[remain]]
        ELSE IF leavingWasTurn \/ r2.turnUserId \notin Range(r2.turnOrder)
        THEN gomokuSetTurnByCursor(
               IF r2.turnCursor >= Len(r2.turnOrder) THEN [r2 EXCEPT !.turnCursor = 0] ELSE r2)
        ELSE [r2 EXCEPT !.turnCursor =
                IF IndexOf(r2.turnOrder, r2.turnUserId) > 0
                THEN IndexOf(r2.turnOrder, r2.turnUserId) ELSE 0])

\* pruneGomokuRoomIfEmpty: the room it leaves, and whether it stays in
\* gomokuRooms
pruneGomokuRoomIfEmpty(r) ==
  IF Len(r.players) > 0 THEN [room |-> r, registered |-> TRUE]
  ELSE [room |-> endStreams(r), registered |-> FALSE]

\* A move suspended in readJsonBody holds the player object it looked up.  A
\* leave takes that object out of room.players, so a later start no longer
\* reaches it: its stone stays what it was when the player left.
DetachPlayer(bag, u, stone) ==
  LET detach(req) == IF req.op = "move" /\ req.user = u /\ req.stone = "live"
                     THEN [req EXCEPT !.stone = stone] ELSE req
      reqs == {detach(q) : q \in DOMAIN bag}
  IN  [q \in reqs |-> SumOver([p \in DOMAIN bag |-> bag[p]], {p \in DOMAIN bag : detach(p) = q})]

GomokuLeave(u) ==
  /\ Exists /\ room.kind = "gomoku"
  /\ IF ~registered THEN Reply("leave", u, "room_not_found")
     ELSE LET pruned == pruneGomokuRoomIfEmpty(gomokuLeave(room, u))
          IN  /\ room' = pruned.room
              /\ registered' = pruned.registered
              /\ inflight' = DetachPlayer(inflight, u, room.stone[u])

\* gomokuStart handing W to the player at cursor 0
gomokuStart_whiteFirst(r, u) ==
  IF r.hostUserId # u THEN Out(r, "host_only")
  ELSE IF Len(r.players) # 2 THEN Out(r, "need_two_players")
  ELSE LET r1 == gomokuSetTurnByCursor(
                   [r EXCEPT !.status = "playing",
                             !.board = EmptyBoard,
                             !.turnOrder = SubSeq(r.players, 1, 2),
                             !.turnCursor = 0])
       IN  Ok([r1 EXCEPT !.winnerUserId = Null,
                          !.winnerStone = Null,
                          !.draw = FALSE,
                          !.lastMoveIndex = NaN,
                          !.lastMoveByUserId = Null,
                          !.stone = [x \in Users |->
                                       IF x \in Range(r1.players)
                                          /\ IndexOf(r1.turnOrder, x) >= 0
                                       THEN (IF IndexOf(r1.turnOrder, x) = 0 THEN "W" ELSE "B")
                                       ELSE r1.stone[x]]])

gomokuStart(r, u) ==
  IF r.hostUserId # u THEN Out(r, "host_only")
  ELSE IF Len(r.players) # 2 THEN Out(r, "need_two_players")
  ELSE LET r1 == gomokuSetTurnByCursor(
                   [r EXCEPT !.status = "playing",
                             !.board = EmptyBoard,
                             !.turnOrder = SubSeq(r.players, 1, 2),
                             !.turnCursor = 0])
       IN  Ok([r1 EXCEPT !.winnerUserId = Null,
                          !.winnerStone = Null,
                          !.draw = FALSE,
                          !.lastMoveIndex = NaN,
                          !.lastMoveByUserId = Null,
                          !.stone = [x \in Users |->
                                       IF x \in Range(r1.players)
                                          /\ IndexOf(r1.turnOrder, x) >= 0
                                       THEN (IF IndexOf(r1.turnOrder, x) = 0 THEN "B" ELSE "W")
                                       ELSE r1.stone[x]]])

GomokuStart(u) ==
  /\ Exists /\ room.kind = "gomoku"
  /\ IF ~registered THEN Reply("start", u, "room_not_found")
     ELSE /\ room' = gomokuStart(room, u).room
          /\ UNCHANGED <<registered, inflight>>

\* POST /api/gomoku/rooms/:code/move up to `await readJsonBody(req)`
GomokuMoveRequest(u) ==
  /\ Exists /\ room.kind = "gomoku"
  /\ IF ~registered THEN Reply("move", u, "room_not_found")
     ELSE IF room.status # "playing" THEN Reply("move", u, "not_playing")
     ELSE IF room.turnUserId # u THEN Reply("move", u, "not_your_turn")
     ELSE IF u \notin Range(room.players) \/ room.stone[u] = Null
     THEN Reply("move", u, "player_not_ready")
     ELSE Park([op |-> "move", user |-> u, stone |-> "live"])

\* the rest of the move handler; stone is player.stone of the player object
\* the handler holds
gomokuMove(r, u, stone, index) ==
  IF index < 0 \/ index > r.boardSize * r.boardSize - 1 THEN Out(r, "invalid_index")
  ELSE IF Cell(r.board, index) # Null THEN Out(r, "occupied")
  ELSE
    LET r1 == [r EXCEPT !.board = (index :> stone) @@ @,
                        !.lastMoveIndex = index,
                        !.lastMoveByUserId = u]
        boardFull == \A i \in 0..(r1.boardSize * r1.boardSize - 1) : Cell(r1.board, i) # Null
    IN  IF gomokuHasFive(r1.board, r1.boardSize, index, stone)
        THEN Ok([r1 EXCEPT !.status = "ended",
                            !.turnUserId = Null,
                            !.draw = FALSE,
                            !.winnerUserId = u,
                            !.winnerStone = stone])
        ELSE IF boardFull
        THEN Ok([r1 EXCEPT !.status = "ended",
                            !.turnUserId = Null,
                            !.draw = TRUE,
                            !.winnerUserId = Null,
                            !.winnerStone = Null])
        ELSE Ok(gomokuSetTurnByCursor(
                   [r1 EXCEPT !.turnCursor =
                      IF Len(r1.turnOrder) = 0 \/ r1.turnCursor = NaN THEN NaN
                      ELSE (r1.turnCursor + 1) % Len(r1.turnOrder)]))

\* the cell indices a move request carries: two that are out of range, the
\* first cell, and the first empty cell among the first MoveCols cells of
\* row 0 and among the first MoveCols - 1 cells of row 1
FirstEmpty(board, cells) ==
  {i \in cells : Cell(board, i) = Null /\ \A j \in cells : j < i => Cell(board, j) # Null}

MoveInputs(r) ==
  {-1, 0, r.boardSize * r.boardSize}
    \cup FirstEmpty(r.board, 0..(MoveCols - 1))
    \cup FirstEmpty(r.board, {r.boardSize + c : c \in 0..(MoveCols - 2)})

GomokuMoveResume(u) ==
  /\ Exists /\ room.kind = "gomoku"
  /\ \E req \in DOMAIN inflight :
       /\ req.op = "move" /\ req.user = u
       /\ inflight' = inflight (-) SetToBag({req})
       /\ UNCHANGED registered
       /\ \E index \in MoveInputs(room) :
            room' = gomokuMove(room, u,
                               IF req.stone = "live" THEN room.stone[u] ELSE req.stone,
                               index).room

NextGomoku ==
  \E u \in GomokuUsers :
    \/ GomokuCreate(u)
    \/ GomokuJoin(u)
    \/ GomokuLeave(u)
    \/ GomokuStart(u)
    \/ GomokuMoveRequest(u)
    \/ GomokuMoveResume(u)

SpecGomoku == Init /\ [][NextGomoku]_vars

\* Late positions of a game: every cell outside the cells a move request can
\* name holds a stone, laid out with no five in line, four and four along
\* each row and each row five cells on from the row above
EndgamePattern(i) ==
  IF ((i % GOMOKU_SIZE) + 5 * (i \div GOMOKU_SIZE)) % 8 < 4 THEN "B" ELSE "W"

EndgameCells == (0..(MoveCols - 1)) \cup {GOMOKU_SIZE + c : c \in 0..(MoveCols - 2)}

EndgameBoard(holes) ==
  [i \in (0..(GOMOKU_SIZE * GOMOKU_SIZE - 1)) \ holes |-> EndgamePattern(i)]

Stones(board, colour) == Cardinality({i \in DOMAIN board : board[i] = colour})

\* the room after the host (B, first to move) and the guest (W) have placed
\* the stones of the board in turn
EndgameRoom(board) ==
  LET host == AllUsers[1]
      guest == AllUsers[2]
      started == gomokuStart(gomokuJoin(gomokuNewRoom(host), guest).room, host).room
      cursor == IF Stones(board, "B") = Stones(board, "W") THEN 0 ELSE 1
      last == IF cursor = 0 THEN "W" ELSE "B"
      lastIndex == CHOOSE i \in DOMAIN board :
                     /\ board[i] = last
                     /\ \A j \in DOMAIN board : board[j] = last => j <= i
  IN  [started EXCEPT !.board = board,
                      !.turnCursor = cursor,
                      !.turnUserId = started.turnOrder[cursor + 1],
                      !.lastMoveIndex = lastIndex,
                      !.lastMoveByUserId = started.turnOrder[2 - cursor]]

EndgameBoards ==
  {board \in {EndgameBoard(holes) :
                 holes \in {h \in SUBSET EndgameCells : Cardinality(h) \in 1..MaxHoles}} :
     Stones(board, "B") - Stones(board, "W") \in {0, 1}}

InitBoards ==
  /\ room \in {NoRoom} \cup {EndgameRoom(board) : board \in EndgameBoards}
  /\ registered = (room # NoRoom)
  /\ inflight = EmptyBag

SpecGomokuBoards == InitBoards /\ [][NextGomoku]_vars

(* -------------------------------- Bingo ------------------------------- *)

\* generateBoard(size): three of the boards the shuffle can produce, each by
\* the number it puts at row r, column c (0-based).  "rows" is 1..size*size
\* row by row, "cols" the same column by column, and "quick" puts the lowest
\* numbers on rows 0 and 1, columns 0 and 1 and the main diagonal, which are
\* five lines.
QuickCells(size) ==
  {<<r, c>> \in (0..(size - 1)) \X (0..(size - 1)) : r < 2 \/ c < 2 \/ r = c}

QuickRank(size, r, c) ==
  LET before(p) == p[1] * size + p[2] < r * size + c
  IN  IF <<r, c>> \in QuickCells(size)
      THEN 1 + Cardinality({p \in QuickCells(size) : before(p)})
      ELSE 1 + Cardinality(QuickCells(size))
             + Cardinality({p \in ((0..(size - 1)) \X (0..(size - 1))) \ QuickCells(size) :
                              before(p)})

BoardCell(board, size, r, c) ==
  IF board = "rows" THEN r * size + c + 1
  ELSE IF board = "cols" THEN c * size + r + 1
  ELSE QuickRank(size, r, c)

generateBoard(size) == {"rows", "quick"}

countCompleteLines(board, size, calledSet) ==
  LET N == 0..(size - 1)
      has(r, c) == BoardCell(board, size, r, c) \in calledSet
  IN  Cardinality({r \in N : \A c \in N : has(r, c)})
      + Cardinality({c \in N : \A r \in N : has(r, c)})
      + (IF \A i \in N : has(i, i) THEN 1 ELSE 0)
      + (IF \A i \in N : has(i, size - 1 - i) THEN 1 ELSE 0)

clampBingoSize(size) == size >= MinBingoSize /\ size <= MaxBingoSize

clampTurnSeconds(seconds) == seconds \in DRAW_TIMEOUT_SECONDS

\* room.turnTimer is "null", or the handle of a timer that is "pending", or
\* the handle of a timer that has "fired" (the callback does not clear it).
\* room.liveTimers are the timers setTimeout has armed that have neither
\* fired nor been cleared, in the order they were armed, each with the turn
\* it was armed in; a pending handle is the handle of the last of them.
ArmedTimer(r) ==
  [turnUserId |-> r.turnUserId, turnCursor |-> r.turnCursor, calledNumbers |-> r.calledNumbers]

\* clearTurnTimer dropping the handle without clearTimeout
clearTurnTimer_dropsHandle(r) == [r EXCEPT !.turnTimer = "null"]

clearTurnTimer(r) ==
  IF r.turnTimer = "pending"
  THEN [r EXCEPT !.turnTimer = "null", !.liveTimers = SubSeq(@, 1, Len(@) - 1)]
  ELSE [r EXCEPT !.turnTimer = "null"]

buildTurnOrder(r) == r.players

countHumanPlayers(r) == Cardinality(Range(r.players) \ {BINGO_BOT_USER_ID})

removeBingoBotIfPresent(r) ==
  IF BINGO_BOT_USER_ID \notin Range(r.players) THEN r
  ELSE LET r1 == [r EXCEPT !.players = Without(@, BINGO_BOT_USER_ID),
                           !.online = @ \ {BINGO_BOT_USER_ID},
                           !.board[BINGO_BOT_USER_ID] = "none",
                           !.turnOrder = Without(@, BINGO_BOT_USER_ID)]
       IN  IF r1.turnUserId = BINGO_BOT_USER_ID
           THEN [r1 EXCEPT !.turnUserId = Null, !.turnEndsAt = FALSE]
           ELSE r1

\* botBoard is the board generateBoard returns if the bot is added
ensureBingoBot(r, botBoard) ==
  IF ~r.botEnabled THEN r
  ELSE IF BINGO_BOT_USER_ID \in Range(r.players) THEN r
  ELSE [r EXCEPT !.players = Append(@, BINGO_BOT_USER_ID),
                 !.online = @ \cup {BINGO_BOT_USER_ID},
                 !.board[BINGO_BOT_USER_ID] = botBoard]

syncBingoBotForHumans(r, botBoard) ==
  IF ~r.botEnabled THEN removeBingoBotIfPresent(r)
  ELSE IF countHumanPlayers(r) <= 1 THEN ensureBingoBot(r, botBoard)
  ELSE removeBingoBotIfPresent(r)

\* the numbers of 1..size*size not yet called
remainingNumbers(r) == {n \in 1..(r.size * r.size) : n \notin r.calledNumbers}

evaluateWinners(r) ==
  LET won == SelectSeq(r.players,
                       LAMBDA x : countCompleteLines(r.board[x], r.size, r.calledNumbers)
                                    >= r.targetLines)
  IN  [i \in 1..Len(won) |->
         [userId |-> won[i],
          lines |-> countCompleteLines(r.board[won[i]], r.size, r.calledNumbers)]]

setTurnByCursor(r) ==
  IF Len(r.turnOrder) = 0 THEN [r EXCEPT !.turnUserId = Null, !.turnEndsAt = FALSE]
  ELSE LET n == Len(r.turnOrder)
           c == ((r.turnCursor % n) + n) % n
       IN  [r EXCEPT !.turnCursor = c, !.turnUserId = r.turnOrder[c + 1]]

\* scheduleTurn arming the timer for a human as for the bot
scheduleTurn_timesHumans(r) ==
  LET r1 == clearTurnTimer(r)
  IN  IF r1.status # "playing" THEN r1
      ELSE IF r1.turnUserId = Null THEN r1
      ELSE [r1 EXCEPT !.turnEndsAt = TRUE,
                      !.turnTimer = "pending",
                      !.liveTimers = Append(@, ArmedTimer(r1))]

\* scheduleTurn, up to the setTimeout
scheduleTurn(r) ==
  LET r1 == clearTurnTimer(r)
  IN  IF r1.status # "playing" THEN r1
      ELSE IF r1.turnUserId = Null THEN r1
      ELSE IF r1.turnUserId # BINGO_BOT_USER_ID THEN [r1 EXCEPT !.turnEndsAt = FALSE]
      ELSE [r1 EXCEPT !.turnEndsAt = TRUE,
                      !.turnTimer = "pending",
                      !.liveTimers = Append(@, ArmedTimer(r1))]

\* drawNextNumber from the point where the number has passed its checks
drawRecorded(r, actorUserId, reason, number) ==
  LET r1 == [r EXCEPT !.calledNumbers = @ \cup {number},
                      !.lastNumber = number,
                      !.lastDrawByUserId = actorUserId,
                      !.lastDrawReason = reason]
      winners == evaluateWinners(r1)
  IN  IF Len(winners) > 0
      THEN clearTurnTimer([r1 EXCEPT !.status = "ended",
                                     !.winners = winners,
                                     !.turnUserId = Null,
                                     !.turnEndsAt = FALSE])
      ELSE IF Len(r1.turnOrder) > 0
      THEN scheduleTurn(setTurnByCursor(
             [r1 EXCEPT !.turnCursor = (r1.turnCursor + 1) % Len(r1.turnOrder)]))
      ELSE clearTurnTimer([r1 EXCEPT !.turnUserId = Null, !.turnEndsAt = FALSE])

\* drawNextNumber when no number is left to call
drawExhausted(r) ==
  clearTurnTimer([r EXCEPT !.status = "ended",
                           !.winners = <<>>,
                           !.turnUserId = Null,
                           !.turnEndsAt = FALSE])

\* drawNextNumber without the checks of the number
drawNextNumber_unvalidated(r, actorUserId, reason, number) ==
  IF r.status # "playing" THEN Out(r, "not_playing")
  ELSE IF remainingNumbers(r) = {} THEN Ok(drawExhausted(r))
  ELSE Ok(drawRecorded(r, actorUserId, reason, number))

\* drawNextNumber recording who draws before it checks the number
drawNextNumber_recordsFirst(r, actorUserId, reason, number) ==
  LET r1 == [r EXCEPT !.lastDrawByUserId = actorUserId]
  IN  IF r.status # "playing" THEN Out(r, "not_playing")
      ELSE IF remainingNumbers(r) = {} THEN Ok(drawExhausted(r))
      ELSE IF number < 1 \/ number > r.size * r.size THEN Out(r1, "invalid_number")
      ELSE IF number \in r.calledNumbers THEN Out(r1, "number_already_called")
      ELSE Ok(drawRecorded(r, actorUserId, reason, number))

\* drawNextNumber without the check of the status
drawNextNumber_anyStatus(r, actorUserId, reason, number) ==
  IF remainingNumbers(r) = {} THEN Ok(drawExhausted(r))
  ELSE IF number < 1 \/ number > r.size * r.size THEN Out(r, "invalid_number")
  ELSE IF number \in r.calledNumbers THEN Out(r, "number_already_called")
  ELSE Ok(drawRecorded(r, actorUserId, reason, number))

drawNextNumber(r, actorUserId, reason, number) ==
  IF r.status # "playing" THEN Out(r, "not_playing")
  ELSE IF remainingNumbers(r) = {} THEN Ok(drawExhausted(r))
  ELSE IF number < 1 \/ number > r.size * r.size THEN Out(r, "invalid_number")
  ELSE IF number \in r.calledNumbers THEN Out(r, "number_already_called")
  ELSE Ok(drawRecorded(r, actorUserId, reason, number))

bingoNewRoom(u, size, botEnabled, board) ==
  [kind |-> "bingo",
   size |-> size,
   targetLines |-> TargetLines,
   drawTimeoutSeconds |-> InitialDrawTimeoutSeconds,
   status |-> "lobby",
   hostUserId |-> u,
   botEnabled |-> botEnabled,
   players |-> <<u>>,
   online |-> {u},
   board |-> [x \in Users \cup {BINGO_BOT_USER_ID} |-> IF x = u THEN board ELSE "none"],
   calledNumbers |-> {},
   lastNumber |-> NoNumber,
   winners |-> <<>>,
   turnOrder |-> <<>>,
   turnCursor |-> 0,
   turnUserId |-> Null,
   turnEndsAt |-> FALSE,
   turnTimer |-> "null",
   liveTimers |-> <<>>,
   lastDrawByUserId |-> Null,
   lastDrawReason |-> Null,
   subscribers |-> <<>>,
   connections |-> [x \in Users |-> 0]]

BingoSizeInputs == {MinBingoSize - 1, MinBingoSize}

BingoCreate(u) ==
  /\ room = NoRoom
  /\ \E size \in BingoSizeInputs, botEnabled \in BOOLEAN :
       IF ~clampBingoSize(size) THEN UNCHANGED <<room, registered>>
       ELSE \E board \in generateBoard(size) :
              /\ room' = bingoNewRoom(u, size, botEnabled, board)
              /\ registered' = TRUE
  /\ UNCHANGED inflight

\* bingoJoin dealing a fresh board to a player who joins again
bingoJoin_dealsAgain(r, u, board) ==
  IF u \notin Range(r.players)
  THEN IF r.status # "lobby" THEN Out(r, "room_not_joinable")
       ELSE LET r1 == IF r.botEnabled /\ BINGO_BOT_USER_ID \in Range(r.players)
                      THEN removeBingoBotIfPresent(r) ELSE r
            IN  IF countHumanPlayers(r1) >= BingoCapacity THEN Out(r1, "room_full")
                ELSE Ok([r1 EXCEPT !.players = Append(@, u),
                                    !.online = @ \cup {u},
                                    !.board[u] = board])
  ELSE Ok([r EXCEPT !.online = @ \cup {u}, !.board[u] = board])

\* board is the board generateBoard returns for the new player
\* bingoJoin without the check of the capacity
bingoJoin_unbounded(r, u, board) ==
  IF u \notin Range(r.players)
  THEN IF r.status # "lobby" THEN Out(r, "room_not_joinable")
       ELSE LET r1 == IF r.botEnabled /\ BINGO_BOT_USER_ID \in Range(r.players)
                      THEN removeBingoBotIfPresent(r) ELSE r
            IN  Ok([r1 EXCEPT !.players = Append(@, u),
                               !.online = @ \cup {u},
                               !.board[u] = board])
  ELSE Ok([r EXCEPT !.online = @ \cup {u}])

bingoJoin(r, u, board) ==
  IF u \notin Range(r.players)
  THEN IF r.status # "lobby" THEN Out(r, "room_not_joinable")
       ELSE LET r1 == IF r.botEnabled /\ BINGO_BOT_USER_ID \in Range(r.players)
                      THEN removeBingoBotIfPresent(r) ELSE r
            IN  IF countHumanPlayers(r1) >= BingoCapacity THEN Out(r1, "room_full")
                ELSE Ok([r1 EXCEPT !.players = Append(@, u),
                                    !.online = @ \cup {u},
                                    !.board[u] = board])
  ELSE Ok([r EXCEPT !.online = @ \cup {u}])

BingoJoin(u) ==
  /\ Exists /\ room.kind = "bingo"
  /\ IF ~registered THEN Reply("join", u, "room_not_found")
     ELSE /\ \E board \in generateBoard(room.size) : room' = bingoJoin(room, u, board).room
          /\ UNCHANGED <<registered, inflight>>

bingoLeave(r, u, botBoard) ==
  LET leavingWasTurn == r.turnUserId = u
      r1 == syncBingoBotForHumans(
              [r EXCEPT !.players = Without(@, u),
                        !.online = @ \ {u},
                        !.board[u] = "none",
                        !.connections = IF u \in DOMAIN @ THEN [@ EXCEPT ![u] = 0] ELSE @,
                        !.turnOrder = Without(@, u)],
              botBoard)
      r2 == IF r1.hostUserId = u
            THEN [r1 EXCEPT !.hostUserId =
                    FirstOf(SelectSeq(r1.players, LAMBDA x : x # BINGO_BOT_USER_ID))]
            ELSE r1
      r3 == [r2 EXCEPT !.turnOrder = buildTurnOrder(r2)]
      wrapped == IF r3.turnCursor >= Len(r3.turnOrder) THEN [r3 EXCEPT !.turnCursor = 0] ELSE r3
  IN  broadcastRoom(
        IF r2.status # "playing" THEN r2
        ELSE IF Len(r3.turnOrder) = 0
        THEN clearTurnTimer([r3 EXCEPT !.status = "ended",
                                       !.turnUserId = Null,
                                       !.turnEndsAt = FALSE])
        ELSE IF leavingWasTurn THEN scheduleTurn(setTurnByCursor(wrapped))
        ELSE IF r3.turnUserId \notin Range(r3.turnOrder)
        THEN scheduleTurn(setTurnByCursor(wrapped))
        ELSE scheduleTurn([r3 EXCEPT !.turnCursor = IndexOf(r3.turnOrder, r3.turnUserId)]))

\* pruneRoomIfEmpty keeping a room that holds any player, the bot included
pruneRoomIfEmpty_keepsBotRoom(r) ==
  IF Len(r.players) > 0 THEN [room |-> r, registered |-> TRUE]
  ELSE [room |-> endStreams(clearTurnTimer(r)), registered |-> FALSE]

\* pruneRoomIfEmpty: the room it leaves, and whether it stays in rooms
pruneRoomIfEmpty(r) ==
  IF countHumanPlayers(r) > 0 THEN [room |-> r, registered |-> TRUE]
  ELSE [room |-> endStreams(clearTurnTimer(r)), registered |-> FALSE]

BingoLeave(u) ==
  /\ Exists /\ room.kind = "bingo"
  /\ IF ~registered THEN Reply("leave", u, "room_not_found")
     ELSE \E botBoard \in generateBoard(room.size) :
            LET pruned == pruneRoomIfEmpty(bingoLeave(room, u, botBoard))
            IN  /\ room' = pruned.room
                /\ registered' = pruned.registered
                /\ UNCHANGED inflight

\* POST /api/rooms/:code/start up to `await readJsonBody(req)`
BingoStartRequest(u) ==
  /\ Exists /\ room.kind = "bingo"
  /\ IF ~registered THEN Reply("start", u, "room_not_found")
     ELSE IF room.hostUserId # u THEN Reply("start", u, "host_only")
     ELSE Park(Request("start", u))

\* the rest of the start handler
bingoStart(r, drawTimeoutSeconds, botBoard) ==
  IF ~clampTurnSeconds(drawTimeoutSeconds) THEN Out(r, "invalid_draw_timeout_seconds")
  ELSE LET r1 == syncBingoBotForHumans(r, botBoard)
       IN  IF countHumanPlayers(r1) < 1 THEN Out(r1, "no_players")
           ELSE Ok(scheduleTurn(setTurnByCursor(
                      [r1 EXCEPT !.status = "playing",
                                 !.drawTimeoutSeconds = drawTimeoutSeconds,
                                 !.calledNumbers = {},
                                 !.lastNumber = NoNumber,
                                 !.winners = <<>>,
                                 !.lastDrawByUserId = Null,
                                 !.lastDrawReason = Null,
                                 !.turnOrder = buildTurnOrder(r1),
                                 !.turnCursor = 0])))

DrawTimeoutInputs == {InitialDrawTimeoutSeconds, InitialDrawTimeoutSeconds + 1}

BingoStartResume(u) ==
  /\ Exists /\ room.kind = "bingo"
  /\ BagIn(Request("start", u), inflight)
  /\ inflight' = inflight (-) SetToBag({Request("start", u)})
  /\ UNCHANGED registered
  /\ \E seconds \in DrawTimeoutInputs, botBoard \in generateBoard(room.size) :
       room' = bingoStart(room, seconds, botBoard).room

\* POST /api/rooms/:code/draw up to `await readJsonBody(req)`
BingoDrawRequest(u) ==
  /\ Exists /\ room.kind = "bingo"
  /\ IF ~registered THEN Reply("draw", u, "room_not_found")
     ELSE IF room.status # "playing" THEN Reply("draw", u, "not_playing")
     ELSE IF u \notin Range(room.players) THEN Reply("draw", u, "not_in_room")
     ELSE IF room.turnUserId # u THEN Reply("draw", u, "not_your_turn")
     ELSE Park(Request("draw", u))

\* the rest of the draw handler
bingoDraw(r, u, number) == drawNextNumber(r, u, "manual_pick", number)

\* the lowest DrawWindow numbers not yet called
LowestRemaining(r) ==
  {n \in remainingNumbers(r) : Cardinality({m \in remainingNumbers(r) : m < n}) < DrawWindow}

\* the numbers a draw request carries: two that are out of range, the number
\* 1, and the lowest DrawWindow numbers not yet called
DrawInputs(r) == {0, 1, r.size * r.size + 1} \cup LowestRemaining(r)

BingoDrawResume(u) ==
  /\ Exists /\ room.kind = "bingo"
  /\ BagIn(Request("draw", u), inflight)
  /\ inflight' = inflight (-) SetToBag({Request("draw", u)})
  /\ UNCHANGED registered
  /\ \E number \in DrawInputs(room) : room' = bingoDraw(room, u, number).room

\* the callback scheduleTurn hands to setTimeout; selectedNumber is what
\* pickRandomRemainingNumber returns
botTurn(r, selectedNumber) ==
  IF r.status # "playing" THEN r
  ELSE IF r.turnUserId = Null THEN r
  ELSE IF remainingNumbers(r) = {} THEN r
  ELSE drawNextNumber(r, r.turnUserId, "bot_pick", selectedNumber).room

\* the timer liveTimers[i] fires
fireTimer(r, i) ==
  [r EXCEPT !.liveTimers = SubSeq(@, 1, i - 1) \o SubSeq(@, i + 1, Len(@)),
            !.turnTimer = IF i = Len(r.liveTimers) /\ @ = "pending" THEN "fired" ELSE @]

BingoTurnTimer ==
  /\ Exists /\ room.kind = "bingo"
  /\ \E i \in DOMAIN room.liveTimers :
       \E selectedNumber \in LowestRemaining(room) \cup {NoNumber} :
         /\ (selectedNumber = NoNumber) = (remainingNumbers(room) = {})
         /\ room' = botTurn(fireTimer(room, i), selectedNumber)
  /\ UNCHANGED <<registered, inflight>>

NextBingo ==
  \/ \E u \in BingoUsers :
       \/ BingoCreate(u)
       \/ BingoJoin(u)
       \/ BingoLeave(u)
       \/ BingoStartRequest(u)
       \/ BingoStartResume(u)
       \/ BingoDrawRequest(u)
       \/ BingoDrawResume(u)
  \/ BingoTurnTimer

SpecBingo == Init /\ [][NextBingo]_vars

(* --------------------------- specifications --------------------------- *)

\* One room of one of the four kinds, from its creation on.
Next == NextBingo \/ NextCroc \/ NextMemory \/ NextGomoku

Spec == Init /\ [][Next]_vars

\* Who is in the room and who has streams open on it: the game handlers never
\* read online, connections or subscribers, and the stream handlers read
\* nothing of the room but players.
PresenceUsers == FirstUsers(NumPresenceUsers)

NextPresence ==
  \E u \in PresenceUsers :
    \/ BingoCreate(u) \/ BingoJoin(u) \/ BingoLeave(u)
    \/ CrocCreate(u) \/ CrocJoin(u) \/ CrocLeave(u)
    \/ MemoryCreate(u) \/ MemoryJoin(u) \/ MemoryLeave(u)
    \/ GomokuCreate(u) \/ GomokuJoin(u) \/ GomokuLeave(u)
    \/ Subscribe(u)
    \/ CloseStream(u)

SpecPresence == Init /\ [][NextPresence]_vars

(* ----------------------------- properties ----------------------------- *)

StatusRank(status) == IF status = "lobby" THEN 0 ELSE IF status = "playing" THEN 1 ELSE 2

\* C1: in every room of every kind, no step moves status backwards along
\* lobby -> playing -> ended.
C1_StatusNeverMovesBack ==
  [][(Exists /\ registered) => StatusRank(room'.status) >= StatusRank(room.status)]_vars

\* C2: in every room of a registry, turnUserId is null or equals
\* turnOrder[turnCursor mod |turnOrder|].
C2_TurnUserIsAtCursor ==
  (Exists /\ registered) =>
    \/ room.turnUserId = Null
    \/ /\ Len(room.turnOrder) > 0
       /\ room.turnCursor # NaN
       /\ room.turnUserId = room.turnOrder[(room.turnCursor % Len(room.turnOrder)) + 1]

\* C3: in every room of a registry whose status is not playing, turnUserId
\* is null.
C3_NoTurnOutsidePlaying ==
  (Exists /\ registered /\ room.status # "playing") => room.turnUserId = Null

\* a step that applies the body of a move request of u
MoveApplied(u) ==
  \/ BingoDrawResume(u)
  \/ CrocPickResume(u)
  \/ MemoryPickResume(u)
  \/ GomokuMoveResume(u)

\* C4: a move changes a room of a registry only if, when it is applied,
\* status is playing and the caller holds the turn.
C4_MoveAppliedOnlyOnTurn ==
  [][\A u \in Callers :
       (registered /\ MoveApplied(u) /\ room' # room) =>
         (room.status = "playing" /\ room.turnUserId = u)]_vars

HumanPlayers(r) == Range(r.players) \ {BINGO_BOT_USER_ID}

\* C5: every human player of a room is online if and only if
\* connections[userId] > 0.
C5_OnlineIffConnected ==
  (Exists /\ registered) =>
    \A u \in HumanPlayers(room) : (u \in room.online) <=> (room.connections[u] > 0)

\* the handler answered {ok: true}, or it left the room as it found it
KeepsRoom(out) == out.error # "none" => out.room = room

Parked(op, u) == BagIn(Request(op, u), inflight)

BingoErrorsKeepRoom ==
  \A u \in Callers :
    /\ \A board \in generateBoard(room.size) : KeepsRoom(bingoJoin(room, u, board))
    /\ Parked("start", u) =>
         \A seconds \in DrawTimeoutInputs, botBoard \in generateBoard(room.size) :
           KeepsRoom(bingoStart(room, seconds, botBoard))
    /\ Parked("draw", u) => \A number \in DrawInputs(room) : KeepsRoom(bingoDraw(room, u, number))

CrocErrorsKeepRoom ==
  \A u \in Callers :
    /\ Parked("start", u) =>
         \A tc \in ToothCountInputs : \A trap \in TrapTeeth(tc) :
           KeepsRoom(crocStart(room, tc, trap))
    /\ Parked("pick", u) => \A tooth \in ToothInputs : KeepsRoom(crocPick(room, u, tooth))

MemoryErrorsKeepRoom ==
  \A u \in Callers :
    /\ KeepsRoom(memoryJoin(room, u))
    /\ Parked("start", u) =>
         \A cardCount \in CardCountInputs : \A deck \in buildMemoryDeck(cardCount) :
           KeepsRoom(memoryStart(room, cardCount, deck))
    /\ Parked("pick", u) => \A index \in IndexInputs(room) : KeepsRoom(memoryPick(room, u, index))

GomokuErrorsKeepRoom ==
  \A u \in Callers :
    /\ KeepsRoom(gomokuJoin(room, u))
    /\ KeepsRoom(gomokuStart(room, u))
    /\ \A req \in DOMAIN inflight :
         (req.op = "move" /\ req.user = u) =>
           \A index \in MoveInputs(room) :
             KeepsRoom(gomokuMove(room, u,
                                  IF req.stone = "live" THEN room.stone[u] ELSE req.stone,
                                  index))

\* C6: an operation that answers {ok: false, error} leaves the room and the
\* registry as they were.  Every handler that can answer an error after it
\* has read the request is applied, in every state, to every input it can
\* be given there.  The Bingo join answers room_full after it has removed
\* the bot, so the last conjunct states that a lobby holding the bot holds
\* at most one human, which is below the capacity.
C6_ErrorLeavesStateUnchanged ==
  Exists =>
    /\ room.kind = "bingo" => BingoErrorsKeepRoom
    /\ room.kind = "croc" => CrocErrorsKeepRoom
    /\ room.kind = "memory" => MemoryErrorsKeepRoom
    /\ room.kind = "gomoku" => GomokuErrorsKeepRoom
    /\ (room.kind = "bingo" /\ room.status = "lobby"
          /\ BINGO_BOT_USER_ID \in Range(room.players)) =>
         (countHumanPlayers(room) <= 1 /\ countHumanPlayers(room) < BingoCapacity)

\* C6 witness: in a room of the registry, a Bingo draw that was parked on
\* the caller's turn is answered number_already_called for a number called
\* since, and a parked start is answered invalid_draw_timeout_seconds.
C6_Witness ==
  /\ Exists /\ registered /\ room.kind = "bingo"
  /\ \E u \in Callers :
       /\ Parked("start", u)
       /\ Parked("draw", u)
       /\ bingoDraw(room, u, 1).error = "number_already_called"
       /\ \E botBoard \in generateBoard(room.size) :
            bingoStart(room, InitialDrawTimeoutSeconds + 1, botBoard).error
              = "invalid_draw_timeout_seconds"

\* C7: in every Memory room, revealedIndices never holds more than 2 indices.
C7_AtMostTwoRevealed ==
  (Exists /\ registered /\ room.kind = "memory") => Len(room.revealedIndices) <= 2

\* C8: in every Memory room, twice matchedCount is the number of matched
\* cards, and no card of revealedIndices is matched.
C8_MatchedCountAndRevealed ==
  (Exists /\ room.kind = "memory") =>
    /\ 2 * room.matchedCount = Cardinality(room.matched)
    /\ \A i \in Range(room.revealedIndices) : i \notin room.matched

\* C8 witness: in a game under way, pairs have been matched and one card is
\* revealed.
C8_Witness ==
  /\ Exists /\ registered /\ room.kind = "memory" /\ room.status = "playing"
  /\ room.matchedCount > 0
  /\ Len(room.revealedIndices) = 1

\* C9: in every Gomoku room whose status is playing there are exactly two
\* players, one holding B and the other W; the player at cursor 0 of the turn
\* order holds B, and it is that player's turn while the board is empty.
C9_TwoPlayersBlackFirst ==
  (Exists /\ room.kind = "gomoku" /\ room.status = "playing") =>
    /\ Len(room.players) = 2
    /\ {room.stone[x] : x \in Range(room.players)} = {"B", "W"}
    /\ Len(room.turnOrder) = 2
    /\ room.stone[room.turnOrder[1]] = "B"
    /\ room.board = EmptyBoard =>
         (room.turnUserId # Null /\ room.stone[room.turnUserId] = "B")

\* C9 witness: a game under way with stones of both colours on the board.
C9_Witness ==
  /\ Exists /\ registered /\ room.kind = "gomoku" /\ room.status = "playing"
  /\ \E i, j \in DOMAIN room.board : room.board[i] = "B" /\ room.board[j] = "W"

\* C10: in every Bingo room, calledNumbers is a subset of 1..size*size, and
\* the status is ended whenever winners is not empty.
C10_CalledInRangeWinnersEnded ==
  (Exists /\ room.kind = "bingo") =>
    /\ room.calledNumbers \subseteq 1..(room.size * room.size)
    /\ Len(room.winners) > 0 => room.status = "ended"

\* C10 witness: a game of a room of the registry has ended with a winner.
C10_Witness ==
  /\ Exists /\ registered /\ room.kind = "bingo"
  /\ room.status = "ended"
  /\ Len(room.winners) > 0
  /\ room.calledNumbers # {}

\* C11: in every Croc room, every tooth of selectedTeeth lies in
\* 1..2*toothCountPerJaw, and lastPickedTooth is null or a tooth of
\* selectedTeeth.
C11_SelectedTeethInRange ==
  (Exists /\ room.kind = "croc") =>
    /\ room.selectedTeeth \subseteq 1..(2 * room.toothCountPerJaw)
    /\ room.lastPickedTooth = NoNumber \/ room.lastPickedTooth \in room.selectedTeeth

\* C11 witness: a tooth that only the larger jaw has was picked, and a start
\* and a pick are both waiting for their request body.
C11_Witness ==
  /\ Exists /\ registered /\ room.kind = "croc" /\ room.status = "playing"
  /\ \E t \in room.selectedTeeth : t > 2 * MinToothCountPerJaw
  /\ \E u, v \in Callers : Parked("start", u) /\ Parked("pick", v)

\* the room with the caller's online flag set, and with it cleared (as the
\* close of the caller's last stream leaves it)
Online(r, u) == [r EXCEPT !.online = @ \cup {u}]

Offline(r, u) == [r EXCEPT !.online = @ \ {u}]

\* a join of room r that succeeded, joined again by the same identity,
\* answers ok and gives the room of the first join; a join by a player
\* changes nothing but that player's online flag
JoinedTwice(r, first, second, u) ==
  first.error = "none" =>
    /\ second.error = "none"
    /\ second.room = first.room
    /\ u \in Range(r.players) => first.room = Online(r, u)

\* POST /api/croc/rooms/:code/join as CrocJoin answers it
crocJoinOut(r, u) ==
  IF r.status # "lobby" /\ u \notin Range(r.players) THEN Out(r, "room_not_joinable")
  ELSE Out(crocJoin(r, u), "none")

\* C12: in every game and every room, whether the caller is online or not,
\* a successful join followed by a join of the same identity leaves the room
\* the first join left, and a join by an identity that is a player changes
\* nothing except that player's online flag.
C12_JoinIdempotent ==
  (Exists /\ registered) =>
    \A u \in Callers : \A r \in {room, Offline(room, u)} :
      /\ r.kind = "bingo" =>
           \A b1, b2 \in generateBoard(r.size) :
             JoinedTwice(r, bingoJoin(r, u, b1), bingoJoin(bingoJoin(r, u, b1).room, u, b2), u)
      /\ r.kind = "croc" =>
           JoinedTwice(r, crocJoinOut(r, u), crocJoinOut(crocJoinOut(r, u).room, u), u)
      /\ r.kind = "memory" =>
           JoinedTwice(r, memoryJoin(r, u), memoryJoin(memoryJoin(r, u).room, u), u)
      /\ r.kind = "gomoku" =>
           JoinedTwice(r, gomokuJoin(r, u), gomokuJoin(gomokuJoin(r, u).room, u), u)

\* C12 witness: a Bingo lobby that holds the bot beside its one human, who
\* can join again, and that another identity can join.
C12_Witness ==
  /\ Exists /\ registered /\ room.kind = "bingo" /\ room.status = "lobby"
  /\ BINGO_BOT_USER_ID \in Range(room.players)
  /\ \E u, v \in Callers :
       /\ u \in Range(room.players) /\ v \notin Range(room.players)
       /\ \A b \in generateBoard(room.size) :
            bingoJoin(room, u, b).error = "none" /\ bingoJoin(room, v, b).error = "none"

\* the room each leave handler leaves when identity u calls it
BingoLeaveKeepsRoom(u) ==
  \A botBoard \in generateBoard(room.size) : bingoLeave(room, u, botBoard) = room

CrocLeaveKeepsRoom(u) == crocLeave(room, u) = room

MemoryLeaveKeepsRoom(u) == memoryLeave(room, u) = room

GomokuLeaveKeepsRoom(u) == gomokuLeave(room, u) = room

\* C13: in every game and every state of a room of the registry, a leave by
\* an identity that is not a player of the room leaves the room unchanged.
C13_LeaveByStrangerKeepsRoom ==
  (Exists /\ registered) =>
    \A u \in Callers \ Range(room.players) :
      /\ room.kind = "bingo" => BingoLeaveKeepsRoom(u)
      /\ room.kind = "croc" => CrocLeaveKeepsRoom(u)
      /\ room.kind = "memory" => MemoryLeaveKeepsRoom(u)
      /\ room.kind = "gomoku" => GomokuLeaveKeepsRoom(u)

\* the users that hold an entry of room.subscribers
Subscribers(r) == {r.subscribers[i].userId : i \in DOMAIN r.subscribers}

\* the state event a broadcast writes, and the response sendJson writes
StateEvent(r) == [event |-> "state", to |-> Subscribers(r), data |-> PublicState(r)]

sendJson(error) == [event |-> "response", to |-> {}, data |-> error]

\* The writes a handler makes once it has applied the request: the state
\* event and then the ok response, or the error response alone.
AnswerFirst(out) ==
  IF out.error # "none" THEN <<sendJson(out.error)>>
  ELSE <<sendJson("none"), StateEvent(out.room)>>

Answer(out) ==
  IF out.error # "none" THEN <<sendJson(out.error)>>
  ELSE <<StateEvent(out.room), sendJson("none")>>

\* the writes of the four leave handlers; the prune comes between them
LeaveAnswer(left) == <<StateEvent(left), sendJson("none")>>

\* the writes w hold a state event that reaches every subscriber of the room
\* the handler leaves and carries that room's snapshot, ahead of the ok response
StateThenOk(w, final) ==
  \E j \in DOMAIN w :
    /\ w[j].event = "response" /\ w[j].data = "none"
    /\ \E i \in 1..(j - 1) :
         /\ w[i].event = "state"
         /\ w[i].to = Subscribers(final)
         /\ w[i].data = PublicState(final)

Announced(out) == out.error = "none" => StateThenOk(Answer(out), out.room)

BingoAnnounces ==
  \A u \in Callers :
    /\ \A board \in generateBoard(room.size) :
         /\ Announced(bingoJoin(room, u, board))
         /\ LET left == bingoLeave(room, u, board)
            IN  StateThenOk(LeaveAnswer(left), pruneRoomIfEmpty(left).room)
    /\ Parked("start", u) =>
         \A seconds \in DrawTimeoutInputs, botBoard \in generateBoard(room.size) :
           Announced(bingoStart(room, seconds, botBoard))
    /\ Parked("draw", u) => \A number \in DrawInputs(room) : Announced(bingoDraw(room, u, number))

CrocAnnounces ==
  \A u \in Callers :
    /\ Announced(crocJoinOut(room, u))
    /\ LET left == crocLeave(room, u)
       IN  StateThenOk(LeaveAnswer(left), pruneCrocRoomIfEmpty(left).room)
    /\ Parked("start", u) =>
         \A tc \in ToothCountInputs : \A trap \in TrapTeeth(tc) :
           Announced(crocStart(room, tc, trap))
    /\ Parked("pick", u) => \A tooth \in ToothInputs : Announced(crocPick(room, u, tooth))

MemoryAnnounces ==
  \A u \in Callers :
    /\ Announced(memoryJoin(room, u))
    /\ LET left == memoryLeave(room, u)
       IN  StateThenOk(LeaveAnswer(left), pruneMemoryRoomIfEmpty(left).room)
    /\ Parked("start", u) =>
         \A cardCount \in CardCountInputs : \A deck \in buildMemoryDeck(cardCount) :
           Announced(memoryStart(room, cardCount, deck))
    /\ Parked("pick", u) => \A index \in IndexInputs(room) : Announced(memoryPick(room, u, index))

GomokuAnnounces ==
  \A u \in Callers :
    /\ Announced(gomokuJoin(room, u))
    /\ Announced(gomokuStart(room, u))
    /\ LET left == gomokuLeave(room, u)
       IN  StateThenOk(LeaveAnswer(left), pruneGomokuRoomIfEmpty(left).room)
    /\ \A req \in DOMAIN inflight :
         (req.op = "move" /\ req.user = u) =>
           \A index \in MoveInputs(room) :
             Announced(gomokuMove(room, u,
                                  IF req.stone = "live" THEN room.stone[u] ELSE req.stone,
                                  index))

NextStreams ==
  \/ \E u \in PresenceUsers :
       \/ MemoryCreate(u) \/ MemoryJoin(u) \/ MemoryLeave(u)
       \/ (MemoryStartRequest(u) /\ BagCardinality(inflight) < MaxStreamedInflight)
       \/ MemoryStartResume(u)
       \/ (MemoryPickRequest(u) /\ BagCardinality(inflight) < MaxStreamedInflight
                                /\ room.matchedCount < MaxStreamedPairs)
       \/ MemoryPickResume(u)
       \/ Subscribe(u)
       \/ CloseStream(u)
  \/ MemoryResolveTimer

SpecStreams == Init /\ [][NextStreams]_vars

\* s is a suffix of t
IsSuffix(s, t) ==
  Len(s) <= Len(t) /\ s = SubSeq(t, Len(t) - Len(s) + 1, Len(t))

\* what was written to a stream since it was attached, as far as it is kept
\* whole; otherwise the snapshots kept of it
Received(sub) == sub.res

\* the same without the snapshot the stream handler writes to the new stream
\* alone before its broadcast
Broadcasts(sub) == IF sub.written <= MaxWritten THEN Tail(sub.res) ELSE sub.res

\* C15, every write counted: of two subscribers of a room, what the one attached later
\* has received ends what the one attached earlier has received, and the
\* last snapshot a subscriber whose stream is not ended has received is the
\* state of the room.
C15_SameSnapshots ==
  Exists =>
    /\ \A i, j \in DOMAIN room.subscribers :
         i < j => IsSuffix(Received(room.subscribers[j]), Received(room.subscribers[i]))
    /\ \A i \in DOMAIN room.subscribers :
         ~room.subscribers[i].ended =>
           room.subscribers[i].res[Len(room.subscribers[i].res)] = PublicState(room)

\* C15, broadcasts only: the same of the snapshots broadcast, leaving out the one the
\* stream handler writes to the new stream alone, which its broadcast repeats.
C15_SameBroadcasts ==
  Exists =>
    /\ \A i, j \in DOMAIN room.subscribers :
         i < j => IsSuffix(Broadcasts(room.subscribers[j]), Received(room.subscribers[i]))
    /\ \A i \in DOMAIN room.subscribers :
         LET sub == room.subscribers[i]
         IN  /\ ~sub.ended => sub.res[Len(sub.res)] = PublicState(room)
             /\ sub.written <= MaxWritten => (Len(sub.res) >= 2 /\ sub.res[1] = sub.res[2])

\* C15 witness: two streams of different users are open in a Memory room
\* that is being played, the mismatch timer has turned two cards back, and
\* both streams hold the snapshots of the pick and of the timer.
C15_Witness ==
  /\ Exists /\ registered /\ room.kind = "memory" /\ room.status = "playing"
  /\ Len(room.subscribers) = 2
  /\ room.subscribers[1].userId # room.subscribers[2].userId
  /\ room.subscribers[1].written > MaxWritten
  /\ room.subscribers[2].written > MaxWritten
  /\ room.subscribers[1].res[1].resolving
  /\ ~room.subscribers[1].res[2].resolving
  /\ room.subscribers[1].res[1].turnUserId # room.subscribers[1].res[2].turnUserId
  /\ room.subscribers[1].res[1].players = room.subscribers[1].res[2].players
  /\ Len(room.subscribers[1].res[2].players) = 2
  /\ room.subscribers[2].res = room.subscribers[1].res

\* a step that records a draw: one more number is called
DrawApplied == room.calledNumbers \subseteq room'.calledNumbers /\ room'.calledNumbers # room.calledNumbers

\* the player after the one at the cursor
NextInTurnOrder(r) == r.turnOrder[((r.turnCursor + 1) % Len(r.turnOrder)) + 1]

\* C16: in a Bingo room of the registry that is playing with the bot to
\* move, a step that records a draw records it for the bot with reason
\* bot_pick, calls one number not called before, and ends the game or
\* passes the turn to the next player of turnOrder.
C16_BotDrawsOnItsTurn ==
  [][(/\ Exists /\ registered /\ room.kind = "bingo"
      /\ room.status = "playing" /\ room.turnUserId = BINGO_BOT_USER_ID
      /\ registered'
      /\ DrawApplied)
     => /\ room'.lastDrawByUserId = BINGO_BOT_USER_ID
        /\ room'.lastDrawReason = "bot_pick"
        /\ Cardinality(room'.calledNumbers \ room.calledNumbers) = 1
        /\ room'.lastNumber \in room'.calledNumbers \ room.calledNumbers
        /\ \/ room'.status = "ended"
           \/ room'.turnUserId = NextInTurnOrder(room)]_vars

\* a step of the turn timer that records a draw starts in a room that is
\* playing with the bot to move
TimerDrawsForBotOnly ==
  [][(Exists /\ room.kind = "bingo" /\ BingoTurnTimer /\ DrawApplied)
       => (room.status = "playing" /\ room.turnUserId = BINGO_BOT_USER_ID)]_vars

\* while a Bingo room is playing with a human to move, turnEndsAt is null
\* and no turn timer is pending
NoDeadlineOnHumanTurn ==
  (Exists /\ room.kind = "bingo" /\ room.status = "playing"
     /\ room.turnUserId \in HumanPlayers(room))
    => (room.turnEndsAt = FALSE /\ room.turnTimer # "pending")

\* C17: the server never draws for a human.  Every step of the turn timer
\* that records a draw starts in a Bingo room that is playing with the bot to
\* move, and whenever a Bingo room is playing with a human to move,
\* turnEndsAt is null and no turn timer is pending.
C17_ServerNeverDrawsForHuman == TimerDrawsForBotOnly /\ []NoDeadlineOnHumanTurn

\* C17 witness: in a room of the registry the timer has drawn for the bot,
\* the turn has passed to a human who has a draw parked, and no timer is
\* pending.
C17_Witness ==
  /\ Exists /\ registered /\ room.kind = "bingo" /\ room.status = "playing"
  /\ room.lastDrawByUserId = BINGO_BOT_USER_ID /\ room.lastDrawReason = "bot_pick"
  /\ room.turnUserId \in HumanPlayers(room)
  /\ Parked("draw", room.turnUserId)
  /\ room.turnTimer = "null"

\* C18: in every Bingo room of the registry created with the bot enabled,
\* the bot is a player whenever at most one human is.
C18_BotPresentWithOneHuman ==
  (Exists /\ registered /\ room.kind = "bingo" /\ room.botEnabled
     /\ countHumanPlayers(room) <= 1)
    => BINGO_BOT_USER_ID \in Range(room.players)

\* C19: in a Bingo room of the registry, a draw request that succeeds, that
\* is, whose number is recorded, is made by the host of the room.
C19_OnlyHostDraws ==
  [][\A u \in Callers :
       (Exists /\ registered /\ room.kind = "bingo" /\ BingoDrawResume(u) /\ DrawApplied)
         => u = room.hostUserId]_vars

\* The identities are interchangeable for the capacity checks, so where a
\* room is filled they join in the order of AllUsers, the human that joined
\* last leaves, and the first identity creates.
CapacityUsers == FirstUsers(NumCapacityUsers)

JoinsNext(u) ==
  \/ u \in Range(room.players)
  \/ \A i \in 1..IndexOf(AllUsers, u) : AllUsers[i] \in Range(room.players)

LeavesLast(u) ==
  LET humans == SelectSeq(room.players, LAMBDA x : x # BINGO_BOT_USER_ID)
  IN  Len(humans) > 0 /\ u = humans[Len(humans)]

NextCapacity ==
  \E u \in CapacityUsers :
    \/ (u = AllUsers[1] /\ BingoCreate(u))
    \/ (u = AllUsers[1] /\ MemoryCreate(u))
    \/ (u = AllUsers[1] /\ GomokuCreate(u))
    \/ (Exists /\ JoinsNext(u) /\ BingoJoin(u))
    \/ (Exists /\ JoinsNext(u) /\ MemoryJoin(u))
    \/ (Exists /\ JoinsNext(u) /\ GomokuJoin(u))
    \/ (Exists /\ LeavesLast(u) /\ BingoLeave(u))
    \/ (Exists /\ LeavesLast(u) /\ MemoryLeave(u))
    \/ (Exists /\ LeavesLast(u) /\ GomokuLeave(u))

SpecCapacity == Init /\ [][NextCapacity]_vars

\* the number of players a room of each kind takes
Capacity(r) ==
  CASE r.kind = "bingo" -> BingoCapacity
    [] r.kind = "memory" -> MemoryCapacity
    [] r.kind = "gomoku" -> GomokuCapacity

\* the answer of the join handler of the room's kind; the Bingo handler is
\* given each board generateBoard can deal
JoinErrors(r, u) ==
  CASE r.kind = "bingo" -> {bingoJoin(r, u, board).error : board \in generateBoard(r.size)}
    [] r.kind = "memory" -> {memoryJoin(r, u).error}
    [] r.kind = "gomoku" -> {gomokuJoin(r, u).error}

\* C20: a Bingo room holds at most 8 humans and at most 8 players with the
\* bot, a Memory room at most 8 players, a Gomoku room at most 2, and the
\* join of one more identity to a lobby that holds that many is answered
\* room_full.
C20_CapacityNeverExceeded ==
  (Exists /\ room.kind \in {"bingo", "memory", "gomoku"}) =>
    /\ Len(room.players) <= Capacity(room)
    /\ room.kind = "bingo" => countHumanPlayers(room) <= BingoCapacity
    /\ \A u \in CapacityUsers \ Range(room.players) :
         (room.status = "lobby" /\ Len(room.players) >= Capacity(room))
           => JoinErrors(room, u) = {"room_full"}

\* C20 witness: a Bingo lobby of the registry, created with the bot enabled,
\* holds 8 humans, and the ninth identity is answered room_full.
C20_Witness ==
  /\ Exists /\ registered /\ room.kind = "bingo" /\ room.status = "lobby"
  /\ room.botEnabled
  /\ countHumanPlayers(room) = BingoCapacity
  /\ \E u \in CapacityUsers \ Range(room.players) : JoinErrors(room, u) = {"room_full"}

\* the leave handler of the room's kind, called by u
LeaveStep(u) ==
  CASE room.kind = "bingo" -> BingoLeave(u)
    [] room.kind = "croc" -> CrocLeave(u)
    [] room.kind = "memory" -> MemoryLeave(u)
    [] room.kind = "gomoku" -> GomokuLeave(u)

\* C21: a room of a registry holds at least one human player, and the only
\* step that takes a room out of its registry is a leave by a human player
\* of the room after which no human player is left.
C21_RegisteredRoomHasHuman ==
  /\ [](registered => (Exists /\ HumanPlayers(room) # {}))
  /\ [][(registered /\ ~registered')
          => \E u \in HumanPlayers(room) : LeaveStep(u) /\ HumanPlayers(room') = {}]_vars

\* C21 witness: a Bingo room whose last human has left is out of the
\* registry and holds the bot alone.
C21_Witness ==
  /\ Exists /\ ~registered /\ room.kind = "bingo"
  /\ room.players = <<BINGO_BOT_USER_ID>>

\* the room has been taken out of its registry
Removed == Exists /\ ~registered

\* a timer of the room is waiting to fire
TimerPending(r) ==
  CASE r.kind = "bingo" -> r.turnTimer = "pending"
    [] r.kind = "memory" -> r.resolveTimer
    [] OTHER -> FALSE

\* C22: a room that has been taken out of its registry has no timer
\* pending, and no step changes its state or arms a timer of it.
C22_RemovedRoomIsInert ==
  /\ [](Removed => ~TimerPending(room))
  /\ [][Removed => (PublicState(room') = PublicState(room) /\ ~TimerPending(room'))]_vars

\* the human player of r that joined first, Null if there is none
FirstHuman(r) == FirstOf(SelectSeq(r.players, LAMBDA x : x # BINGO_BOT_USER_ID))

\* C23: the host of a room of a registry is a human player of the room; the
\* room is created with its creator as host and only player; and the host
\* changes only when the host leaves, to the human player that joined first
\* of those still in the room.
C23_HostIsEarliestHuman ==
  /\ [](registered => (room.hostUserId # Null /\ room.hostUserId \in HumanPlayers(room)))
  /\ [][/\ (room = NoRoom /\ room' # NoRoom) => room'.players = <<room'.hostUserId>>
        /\ (registered /\ registered' /\ room'.hostUserId # room.hostUserId)
             => /\ LeaveStep(room.hostUserId)
                /\ room'.hostUserId = FirstHuman(room')
                /\ room'.hostUserId = FirstHuman([room EXCEPT !.players = Without(@, room.hostUserId)])
       ]_vars

\* C23 witness: a Gomoku lobby of the registry whose host holds the white
\* stone, the stone of the player who joined the creator, beside a player
\* who joined after the creator left.
C23_Witness ==
  /\ Exists /\ registered /\ room.kind = "gomoku" /\ room.status = "lobby"
  /\ Len(room.players) = 2
  /\ room.hostUserId = room.players[1]
  /\ room.stone[room.hostUserId] = "W"
  /\ room.stone[room.players[2]] = "B"

\* The Memory handlers and the timer of a mismatch for three users.  A
\* request is parked while no other is, and picks are requested until
\* MaxStreamedPairs pairs are matched.
MismatchUsers == FirstUsers(NumMismatchUsers)

NextMismatch ==
  \/ \E u \in MismatchUsers :
       \/ MemoryCreate(u) \/ MemoryJoin(u) \/ MemoryLeave(u)
       \/ (MemoryStartRequest(u) /\ BagCardinality(inflight) < MaxStreamedInflight)
       \/ MemoryStartResume(u)
       \/ (MemoryPickRequest(u) /\ BagCardinality(inflight) < MaxStreamedInflight
                                /\ room.matchedCount < MaxStreamedPairs)
       \/ MemoryPickResume(u)
  \/ MemoryResolveTimer

SpecMismatch == Init /\ [][NextMismatch]_vars

\* the player that follows p in order, of those in remaining; p if no other
\* is left
Successor(order, p, remaining) ==
  LET n == Len(order)
      at == IndexOf(order, p)
      after == [i \in 1..n |-> order[((at + i) % n) + 1]]
      left == SelectSeq(after, LAMBDA x : x \in remaining)
  IN  IF left = <<>> THEN Null ELSE left[1]

\* C24: in a Memory room of the registry that is playing and resolving a
\* mismatch of the turn holder P, a step after which the room is playing and
\* no longer resolving has cleared revealedIndices and given the turn to the
\* player that follows P in turnOrder.
C24_MismatchPassesTurn ==
  [][(/\ Exists /\ registered /\ room.kind = "memory"
      /\ room.status = "playing" /\ room.resolving
      /\ room.turnUserId \in Range(room.turnOrder)
      /\ registered' /\ room'.status = "playing" /\ ~room'.resolving)
     => /\ room'.revealedIndices = <<>>
        /\ room'.turnUserId =
             Successor(room.turnOrder, room.turnUserId, Range(room'.turnOrder))]_vars

\* a step of the pick handler in which u picks the trap tooth of a playing
\* Croc room of the registry
TrapPicked(u) ==
  /\ Exists /\ registered /\ room.kind = "croc" /\ room.status = "playing"
  /\ CrocPickResume(u)
  /\ room'.lastPickerUserId = u
  /\ room'.lastPickedTooth = room'.trapTooth
  /\ room'.selectedTeeth # room.selectedTeeth

\* C25: whenever a player picks the trap tooth of a playing Croc room, the
\* room is ended, the picker is the loser and is not alive, and the winner is
\* a player of the room other than the picker, also when players left after
\* start.
C25_TrapPickNamesWinner ==
  [][\A u \in CrocUsers :
       TrapPicked(u) =>
         /\ room'.status = "ended"
         /\ room'.loserUserId = u
         /\ u \notin room'.alive
         /\ room'.winnerUserId # Null
         /\ room'.winnerUserId \in Range(room'.players)
         /\ room'.winnerUserId # u]_vars

\* the five cells starting k cells before (row, col) along direction d
Window(boardSize, row, col, d, k) ==
  {<<row + (j - k) * d[1], col + (j - k) * d[2]>> : j \in 0..4}

\* the cell at index belongs to five cells in line, all on the board and all
\* holding the colour
InRunOfFive(board, boardSize, index, colour) ==
  LET row == index \div boardSize
      col == index % boardSize
  IN  \E d \in {<<0, 1>>, <<1, 0>>, <<1, 1>>, <<1, -1>>} : \E k \in 0..4 :
        \A cell \in Window(boardSize, row, col, d, k) :
          /\ cell[1] \in 0..(boardSize - 1)
          /\ cell[2] \in 0..(boardSize - 1)
          /\ Cell(board, cell[1] * boardSize + cell[2]) = colour

BoardFull(r) == \A i \in 0..(r.boardSize * r.boardSize - 1) : Cell(r.board, i) # Null

\* a step in which the move handler places a stone for u, the turn holder
\* and a player of a playing Gomoku room of the registry
LegalMove(u) ==
  /\ Exists /\ registered /\ room.kind = "gomoku" /\ room.status = "playing"
  /\ room.turnUserId = u /\ u \in Range(room.players) /\ room.stone[u] # Null
  /\ GomokuMoveResume(u)
  /\ room'.board # room.board

MoverWins(u) ==
  room'.status = "ended" /\ room'.winnerUserId = u /\ ~room'.draw

\* C26: a legal Gomoku move ends the game with the mover as winner exactly
\* when the placed cell lies in five or more stones of the mover's colour in
\* line on the board; otherwise the game ends as a draw exactly when the
\* board is full, and otherwise the turn passes to the other player.
C26_MoveOutcome ==
  [][\A u \in GomokuUsers :
       LegalMove(u) =>
         LET five == InRunOfFive(room'.board, room'.boardSize, room'.lastMoveIndex, room.stone[u])
         IN  /\ MoverWins(u) <=> five
             /\ ~five => ((room'.status = "ended" /\ room'.draw) <=> BoardFull(room'))
             /\ (~five /\ ~BoardFull(room')) =>
                  /\ room'.status = "playing"
                  /\ room'.turnUserId \in Range(room'.players) \ {u}]_vars

C26_Witness ==
  /\ Exists /\ registered /\ room.kind = "gomoku"
  /\ room.status = "ended" /\ room.draw /\ room.winnerUserId = Null
  /\ BoardFull(room)
  /\ room.lastMoveIndex \in EndgameCells

\* a step in which the leave handler takes player u out of a playing Gomoku
\* room of the registry
LeavesGame(u) ==
  /\ Exists /\ registered /\ room.kind = "gomoku" /\ room.status = "playing"
  /\ u \in Range(room.players)
  /\ GomokuLeave(u)

\* C27: when a player leaves a playing Gomoku room, the game is ended in the
\* same step with no turn holder and no draw, and the player who remains is
\* the winner, with the stone colour that player holds.
C27_LeaveEndsGame ==
  [][\A u \in GomokuUsers :
       LeavesGame(u) =>
         /\ room'.status = "ended"
         /\ room'.turnUserId = Null
         /\ ~room'.draw
         /\ \E remain \in Range(room.players) \ {u} :
              /\ room'.players = <<remain>>
              /\ room'.winnerUserId = remain
              /\ room'.winnerStone = room.stone[remain]
              /\ room'.winnerStone = room'.stone[remain]
              /\ room'.winnerStone \in {"B", "W"}]_vars

C27_Witness ==
  /\ Exists /\ registered /\ room.kind = "gomoku" /\ room.status = "ended"
  /\ Len(room.players) = 1
  /\ room.winnerUserId = room.players[1]
  /\ room.winnerStone = "W"
  /\ room.stone[room.players[1]] = "W"
  /\ Stones(room.board, "B") = 1 /\ Stones(room.board, "W") = 1
  /\ room.lastMoveByUserId = room.players[1]
  /\ room.turnUserId = Null /\ ~room.draw
  /\ inflight = EmptyBag

EndedWithWinners ==
  Exists /\ room.kind = "bingo" /\ room.status = "ended" /\ room.winners # <<>>

DrawStepping(u) == BingoDrawRequest(u) \/ BingoDrawResume(u)

\* C28: once a Bingo game has ended with winners, a draw request, whether it
\* arrives now or was waiting for its body, is refused with not_playing, no
\* bot timer is left to fire, and calledNumbers, lastNumber and winners keep
\* their values until a start is applied.
C28_NoDrawAfterWin ==
  /\ [](EndedWithWinners =>
          /\ room.turnTimer # "pending"
          /\ \A u \in BingoUsers : \A number \in DrawInputs(room) :
               bingoDraw(room, u, number) = Out(room, "not_playing")
          /\ \A number \in DrawInputs(room) : botTurn(room, number) = room)
  /\ [][EndedWithWinners =>
          \/ /\ room'.calledNumbers = room.calledNumbers
             /\ room'.lastNumber = room.lastNumber
             /\ room'.winners = room.winners
          \/ \E u \in BingoUsers :
               BingoStartResume(u) /\ room'.status = "playing"]_vars
  /\ [][\A u \in BingoUsers : (EndedWithWinners /\ DrawStepping(u)) => room' = room]_vars

C28_Witness ==
  /\ EndedWithWinners
  /\ registered
  /\ \E u \in BingoUsers : BagIn(Request("draw", u), inflight)

\* the step of the start handler of the room's game that assigns to the room
StartStep(u) ==
  CASE room.kind = "bingo" -> BingoStartResume(u)
    [] room.kind = "croc" -> CrocStartResume(u)
    [] room.kind = "memory" -> MemoryStartResume(u)
    [] room.kind = "gomoku" -> GomokuStart(u)

\* C29: in every game, a start changes the room only when its caller is the
\* host and a player of the room in the state the change is applied to, also
\* when the host leaves while the body of the start request is read.
C29_StartOnlyByHost ==
  [][\A u \in Callers :
       (Exists /\ StartStep(u) /\ room' # room) =>
         /\ room.hostUserId = u
         /\ u \in Range(room.players)]_vars

\* the indices (0-based) of the cards that are neither matched nor revealed
HiddenCards(r) ==
  {i \in 0..(Len(r.cards) - 1) : i \notin r.matched /\ i \notin Range(r.revealedIndices)}

CountryKeys(r) == 1..(r.cardCount \div 2)

\* C30: in the Memory snapshot a card is visible exactly when it is matched
\* or revealed, a card that is not visible carries the null flag and name and
\* no country key, and putting any other country behind a hidden card leaves
\* the snapshot as it is.
C30_SnapshotHidesCards ==
  (Exists /\ room.kind = "memory") =>
    LET snapshot == memoryRoomPublicState(room)
    IN  /\ \A i \in DOMAIN room.cards :
             /\ snapshot.cards[i].visible <=> (i - 1) \notin HiddenCards(room)
             /\ snapshot.cards[i].matched <=> (i - 1) \in room.matched
             /\ ~snapshot.cards[i].visible => snapshot.cards[i].flag = NoNumber
             /\ "countryKey" \notin DOMAIN snapshot.cards[i]
        /\ \A i \in HiddenCards(room) : \A key \in CountryKeys(room) :
             memoryRoomPublicState([room EXCEPT !.cards[i + 1] = key]) = snapshot

C30_Witness ==
  /\ Exists /\ registered /\ room.kind = "memory" /\ room.status = "playing"
  /\ room.resolving /\ Len(room.revealedIndices) = 2
  /\ room.cards[room.revealedIndices[1] + 1] # room.cards[room.revealedIndices[2] + 1]
  /\ HiddenCards(room) # {}
  /\ memoryRoomPublicState(room).cards[room.revealedIndices[1] + 1].flag
       = room.cards[room.revealedIndices[1] + 1]

\* the event streams of user u among room.subscribers
StreamsOf(r, u) == Cardinality({i \in DOMAIN r.subscribers : r.subscribers[i].userId = u})

\* C31: in every room of a registry, connections[userId] is the number of
\* event streams of that user among room.subscribers, whatever subscribes,
\* stream closes, joins and leaves came before.
C31_ConnectionsCountStreams ==
  (Exists /\ registered) =>
    \A u \in PresenceUsers : room.connections[u] = StreamsOf(room, u)

\* a step in which the pick handler takes a tooth other than the trap for u,
\* the turn holder of a playing Croc room of the registry
PlainPick(u) ==
  /\ Exists /\ registered /\ room.kind = "croc" /\ room.status = "playing"
  /\ room.turnUserId = u /\ u \in Range(room.turnOrder)
  /\ CrocPickResume(u)
  /\ room'.selectedTeeth # room.selectedTeeth
  /\ room'.status = "playing"

\* C32: after a pick of the turn holder P that misses the trap, the turn
\* belongs to the player that follows P in turnOrder, cyclically, also when
\* a player left the room since the pick before.
C32_TurnPassesToNext ==
  [][\A u \in CrocUsers :
       PlainPick(u) =>
         room'.turnUserId = Successor(room.turnOrder, u, Range(room.turnOrder))]_vars

\* C33: in every playing Bingo room of the registry, no player, human or
\* bot, has targetLines or more complete lines over calledNumbers.
C33_NoWinnerWhilePlaying ==
  (Exists /\ registered /\ room.kind = "bingo" /\ room.status = "playing") =>
    \A p \in Range(room.players) :
      countCompleteLines(room.board[p], room.size, room.calledNumbers) < room.targetLines

\* C34: a Bingo room has at most one live bot timer, the one room.turnTimer
\* is the handle of, and that timer was armed in the turn the room is in: the
\* room is playing, and its turn holder, cursor and called numbers are those
\* of the moment the timer was armed, so every draw, turn change and end of
\* game since then has cleared it.
C34_OneTimerForTheTurn ==
  (Exists /\ room.kind = "bingo") =>
    /\ Len(room.liveTimers) <= 1
    /\ (room.turnTimer = "pending") <=> (Len(room.liveTimers) = 1)
    /\ \A i \in DOMAIN room.liveTimers :
         /\ room.status = "playing"
         /\ room.liveTimers[i] = ArmedTimer(room)
         /\ room.turnUserId = BINGO_BOT_USER_ID

C34_Witness ==
  /\ Exists /\ registered /\ room.kind = "bingo" /\ room.status = "playing"
  /\ Len(room.liveTimers) = 1
  /\ room.calledNumbers # {}
  /\ room.lastDrawReason = "manual_pick"

\* C35: on the board of every Gomoku room of the registry, B has as many
\* stones as W or one more, and the cell of the last move holds the stone of
\* the player who made it while that player is in the room, under every
\* interleaving of move requests.
C35_StonesAlternate ==
  (Exists /\ registered /\ room.kind = "gomoku") =>
    /\ Stones(room.board, "B") - Stones(room.board, "W") \in {0, 1}
    /\ (room.lastMoveIndex # NaN /\ room.lastMoveByUserId \in Range(room.players)) =>
         Cell(room.board, room.lastMoveIndex) = room.stone[room.lastMoveByUserId]

\* C36: in every Memory room of the registry, resolving is true exactly
\* when the timer of a mismatch is pending.
C36_ResolvingIffTimer ==
  (Exists /\ registered /\ room.kind = "memory") => (room.resolving <=> room.resolveTimer)

C36_Witness ==
  /\ Exists /\ registered /\ room.kind = "memory" /\ room.status = "playing"
  /\ room.resolving /\ room.resolveTimer
  /\ Len(room.revealedIndices) = 3
  /\ Len(room.players) = 2

\* C37: in every room of a registry, turnUserId is null or a player of the
\* room, and turnOrder holds players of the room only.
C37_TurnNamesPlayers ==
  (Exists /\ registered) =>
    /\ room.turnUserId = Null \/ room.turnUserId \in Range(room.players)
    /\ Range(room.turnOrder) \subseteq Range(room.players)

\* a step in which the pick handler selects a tooth in a playing Croc room
PickSelects(u) ==
  /\ Exists /\ room.kind = "croc" /\ room.status = "playing"
  /\ CrocPickResume(u) \/ CrocPickResumeLowest(u)
  /\ room'.selectedTeeth # room.selectedTeeth

\* C38: in every playing Croc room trapTooth is a tooth of the jaws and is not
\* selected, every selected tooth is a tooth of the jaws, and every pick that
\* succeeds selects one more tooth; so fewer than 2 * toothCountPerJaw teeth
\* are selected while the game is playing, and the pick that selects the last
\* tooth ends it.
C38_TrapAmongUnselected ==
  /\ []((Exists /\ room.kind = "croc" /\ room.status = "playing") =>
          /\ room.trapTooth \in 1..(2 * room.toothCountPerJaw)
          /\ room.trapTooth \notin room.selectedTeeth
          /\ room.selectedTeeth \subseteq 1..(2 * room.toothCountPerJaw)
          /\ Cardinality(room.selectedTeeth) < 2 * room.toothCountPerJaw)
  /\ [][\A u \in LongGameUsers :
          PickSelects(u) =>
            /\ Cardinality(room'.selectedTeeth) = Cardinality(room.selectedTeeth) + 1
            /\ Cardinality(room'.selectedTeeth) = 2 * room.toothCountPerJaw
                 => room'.status = "ended"]_vars

C38_Witness ==
  /\ Exists /\ registered /\ room.kind = "croc" /\ room.status = "ended"
  /\ room.selectedTeeth = 1..(2 * room.toothCountPerJaw)
  /\ room.lastPickedTooth = room.trapTooth
  /\ room.loserUserId = room.lastPickerUserId
  /\ inflight = EmptyBag

\* POST /api/croc/rooms/:code/start as CrocStartRequest answers it before
\* the body is read
crocStartRequestOut(r, u) ==
  IF r.hostUserId # u THEN "host_only"
  ELSE IF Len(r.players) < 2 THEN "need_two_players"
  ELSE "none"

\* POST /api/croc/rooms/:code/pick as CrocPickRequest answers it before the
\* body is read
crocPickRequestOut(r, u) ==
  IF r.status # "playing" THEN "not_playing"
  ELSE IF r.turnUserId # u THEN "not_your_turn"
  ELSE "none"

\* the response of the pick handler: its error, or {ok: true, trap}
crocPickResponse(r, u, tooth) ==
  LET out == crocPick(r, u, tooth)
  IN  [error |-> out.error, trap |-> out.error = "none" /\ tooth = r.trapTooth]

\* room r with one event stream attached and nothing written to it yet
Watched(r) == [r EXCEPT !.subscribers = <<NewSub(FirstOf(AllUsers))>>]

\* rooms a and b differ in trapTooth at most, what was written to their
\* streams included
SameButTrap(a, b) == [a EXCEPT !.trapTooth = NoNumber] = [b EXCEPT !.trapTooth = NoNumber]

\* a start answers rooms a and b alike and leaves them alike but for the
\* trap, whatever trap each of them draws
StartedAlike(a, b) ==
  \A tc \in ToothCountInputs : \A ta, tb \in TrapTeeth(tc) :
    /\ crocStart(a, tc, ta).error = crocStart(b, tc, tb).error
    /\ SameButTrap(crocStart(a, tc, ta).room, crocStart(b, tc, tb).room)

\* every other operation of identity u answers rooms a and b alike and leaves them
\* alike but for the trap; a pick is left out when its tooth is the trap of
\* one of them
AnsweredAlike(a, b, u) ==
  /\ crocJoinOut(a, u).error = crocJoinOut(b, u).error
  /\ SameButTrap(crocJoinOut(a, u).room, crocJoinOut(b, u).room)
  /\ pruneCrocRoomIfEmpty(crocLeave(a, u)).registered
       = pruneCrocRoomIfEmpty(crocLeave(b, u)).registered
  /\ SameButTrap(pruneCrocRoomIfEmpty(crocLeave(a, u)).room,
                 pruneCrocRoomIfEmpty(crocLeave(b, u)).room)
  /\ crocStartRequestOut(a, u) = crocStartRequestOut(b, u)
  /\ crocPickRequestOut(a, u) = crocPickRequestOut(b, u)
  /\ \A tooth \in (ToothInputs \cup LowestTeeth(a)) \ {a.trapTooth, b.trapTooth} :
       /\ crocPickResponse(a, u, tooth) = crocPickResponse(b, u, tooth)
       /\ SameButTrap(crocPick(a, u, tooth).room, crocPick(b, u, tooth).room)

\* C39: a Croc room and the same room with another trap have the same public
\* snapshot, and every operation other than a pick of one of the two traps
\* gets the same response from both, writes the same snapshot to their
\* streams and leaves them differing in trapTooth at most.
C39_TrapNotObservable ==
  (Exists /\ room.kind = "croc") =>
    \A t \in TrapTeeth(room.toothCountPerJaw) :
      LET a == Watched(room)
          b == [a EXCEPT !.trapTooth = t]
      IN  /\ PublicState(a) = PublicState(b)
          /\ StartedAlike(a, b)
          /\ \A u \in LongGameUsers : AnsweredAlike(a, b, u)

\* C39 witness: a game in which a tooth was picked and that is still playing
\* with either of two traps, the player at turn having a tooth to pick that
\* is neither.
C39_Witness ==
  /\ Exists /\ registered /\ room.kind = "croc" /\ room.status = "playing"
  /\ room.selectedTeeth # {}
  /\ \E t \in TrapTeeth(room.toothCountPerJaw) \ (room.selectedTeeth \cup {room.trapTooth}) :
       \E tooth \in LowestTeeth(room) \ {t, room.trapTooth} :
         /\ BagIn(Request("pick", room.turnUserId), inflight)
         /\ crocPick(room, room.turnUserId, tooth).error = "none"
         /\ crocPick([room EXCEPT !.trapTooth = t], room.turnUserId, tooth).room.status = "playing"

====
